---------------------------- MODULE Spec2Model ----------------------------
(***************************************************************************)
(* A model of the two SQL complexity scoring engines                       *)
(*   src/conversion-complexity/conversion_complexity_scoring_engine.py     *)
(*   src/structural-complexity/structural_complexity_scoring_engine.py     *)
(*                                                                         *)
(* Strings are sequences of one-character strings.  Scores that the code   *)
(* holds as floats are held as exact integers in a stated unit.            *)
(***************************************************************************)
EXTENDS Integers, Sequences, FiniteSets, TLC

VARIABLES
    variant,            \* which engine class was constructed
    source_db,          \* self.source_db
    compiled_patterns,  \* conversion: self.compiled_patterns
    common_rules,       \* structural: self.common_rules
    dbms_rules,         \* structural: self.dbms_rules
    rule_match_counts,  \* self.rule_match_counts
    last_score,         \* the QueryScore that the latest call returned, if it
                        \* was a score_query
    call                \* the latest call of a helper or of an analyze method:
                        \* its name, argument, progress, result

vars == <<variant, source_db, compiled_patterns, common_rules, dbms_rules,
          rule_match_counts, last_score, call>>

engine_vars == <<variant, source_db, compiled_patterns, common_rules, dbms_rules,
                 rule_match_counts, last_score>>

None == "None"

(***************************************************************************)
(* Characters and strings                                                  *)
(***************************************************************************)
LowerChars == <<"a","b","c","d","e","f","g","h","i","j","k","l","m",
                "n","o","p","q","r","s","t","u","v","w","x","y","z">>
UpperChars == <<"A","B","C","D","E","F","G","H","I","J","K","L","M",
                "N","O","P","Q","R","S","T","U","V","W","X","Y","Z">>
DigitChars == <<"0","1","2","3","4","5","6","7","8","9">>

IsLower(c) == \E k \in DOMAIN LowerChars : LowerChars[k] = c
IsUpper(c) == \E k \in DOMAIN UpperChars : UpperChars[k] = c
IsDigit(c) == \E k \in DOMAIN DigitChars : DigitChars[k] = c
\* str.isalnum() of one character
IsAlnum(c) == IsLower(c) \/ IsUpper(c) \/ IsDigit(c)
\* the class \w of the re module
IsWord(c) == IsAlnum(c) \/ c = "_"
\* the class \s of the re module, and what str.strip() strips
IsSpace(c) == c \in {" ", "\t", "\n", "\r", "\f"}

UpperChar(c) == IF IsLower(c) THEN UpperChars[CHOOSE k \in DOMAIN LowerChars : LowerChars[k] = c]
                ELSE c
LowerChar(c) == IF IsUpper(c) THEN LowerChars[CHOOSE k \in DOMAIN UpperChars : UpperChars[k] = c]
                ELSE c
\* str.upper() and str.lower()
Upper(s) == [k \in 1..Len(s) |-> UpperChar(s[k])]
Lower(s) == [k \in 1..Len(s) |-> LowerChar(s[k])]

\* s[a:b] of Python for 0 <= a, with Python's clipping at the end of s
Slice(s, a, b) ==
    LET e == IF b > Len(s) THEN Len(s) ELSE b
    IN  IF a >= e THEN <<>> ELSE SubSeq(s, a + 1, e)
\* s[a:]
SliceFrom(s, a) == Slice(s, a, Len(s))
\* s[a:a+len(lit)] == lit
HasAt(s, a, lit) == a >= 0 /\ a + Len(lit) <= Len(s) /\ SubSeq(s, a + 1, a + Len(lit)) = lit

Min(a, b) == IF a < b THEN a ELSE b
Max(a, b) == IF a > b THEN a ELSE b

\* Body of the value of v, with v worked out once, before Body starts
Let(v, Body(_)) == CHOOSE r \in { Body(x) : x \in {v} } : TRUE

\* the first q in lo..hi that P holds of, or -1
RECURSIVE First(_, _, _)
First(P(_), lo, hi) ==
    IF lo > hi THEN -1
    ELSE IF lo = hi THEN (IF P(lo) THEN lo ELSE -1)
    ELSE Let(First(P, lo, (lo + hi) \div 2),
             LAMBDA q : IF q # -1 THEN q ELSE First(P, (lo + hi) \div 2 + 1, hi))

\* the turns i = lo, ..., hi - 1 of a loop with body Turn, in this order, from
\* the state st on; the first half of the turns is worked out before the
\* second half starts
RECURSIVE Loop(_, _, _, _)
Loop(Turn(_, _), lo, hi, st) ==
    IF lo >= hi THEN st
    ELSE IF lo + 1 = hi THEN Turn(lo, st)
    ELSE Let(Loop(Turn, lo, (lo + hi) \div 2, st),
             LAMBDA half : Loop(Turn, (lo + hi) \div 2, hi, half))

(***************************************************************************)
(* _normalize_db_name                                                      *)
(***************************************************************************)
\* DB_ALIASES, in the dict's order
DB_ALIASES == <<
    [canonical |-> <<"O","R","A">>,
     aliases   |-> << <<"O","R","A">>, <<"O","R","A","C","L","E">> >>],
    [canonical |-> <<"M","Y">>,
     aliases   |-> << <<"M","Y">>, <<"M","Y","S","Q","L">> >>],
    [canonical |-> <<"M","D","B">>,
     aliases   |-> << <<"M","D","B">>, <<"M","A","R","I","A","D","B">> >>],
    [canonical |-> <<"P","G">>,
     aliases   |-> << <<"P","G">>, <<"P","O","S","T","G","R","E","S","Q","L">>,
                      <<"P","O","S","T","G","R","E","S">> >>],
    [canonical |-> <<"S","S">>,
     aliases   |-> << <<"S","S">>, <<"S","Q","L","S","E","R","V","E","R">>,
                      <<"M","S","S","Q","L">> >>],
    [canonical |-> <<"A","L","T">>,
     aliases   |-> << <<"A","L","T">>, <<"A","L","T","I","B","A","S","E">> >>],
    [canonical |-> <<"D","B","2">>,
     aliases   |-> << <<"D","B","2">>, <<"I","B","M"," ","D","B","2">> >> ] >>

InList(x, list) == \E k \in DOMAIN list : list[k] = x

\* the for loop of _normalize_db_name from entry k of DB_ALIASES on
RECURSIVE NormalizeFrom(_, _)
NormalizeFrom(db_upper, k) ==
    IF k > Len(DB_ALIASES) THEN db_upper
    ELSE IF InList(db_upper, DB_ALIASES[k].aliases) THEN DB_ALIASES[k].canonical
    ELSE NormalizeFrom(db_upper, k + 1)

\* a lookup that forgets to upper-case the name
Mutant_normalize_db_name_CaseSensitive(db_name) == NormalizeFrom(db_name, 1)

_normalize_db_name(db_name) == NormalizeFrom(Upper(db_name), 1)

(***************************************************************************)
(* The engines before any is constructed, and a helper call that is idle   *)
(***************************************************************************)
EngineIdle ==
    /\ variant = None
    /\ source_db = <<>>
    /\ compiled_patterns = <<>>
    /\ common_rules = <<>>
    /\ dbms_rules = <<>>
    /\ rule_match_counts = <<>>
    /\ last_score = <<>>

NoCall == [fn |-> None]

\* a helper about to run on arg
Pending(fn, arg) == [fn |-> fn, arg |-> arg, done |-> FALSE]
\* the helper has returned ret
Returned(c, ret) == [fn |-> c.fn, arg |-> c.arg, done |-> TRUE, ret |-> ret]
IsPending(fn) == call.fn = fn /\ ~call.done
IsReturned(fn) == call.fn = fn /\ call.done

(***************************************************************************)
(* SpecDb: _normalize_db_name on dialect names                             *)
(***************************************************************************)
\* every way of writing s with some letters lower-cased
CaseVariants(s) ==
    { [k \in 1..Len(s) |-> IF k \in m THEN LowerChar(s[k]) ELSE s[k]] : m \in SUBSET (1..Len(s)) }

AllAliases == UNION { { DB_ALIASES[k].aliases[j] : j \in DOMAIN DB_ALIASES[k].aliases }
                      : k \in DOMAIN DB_ALIASES }

\* names that are no alias in any letter case
OtherDbNames == { <<"F","O","O">>, <<"F","o","o">>, <<"f","o","o">>, <<" ","m","y","s","q","l">>, <<"m","y","s","q","l"," ">>, <<>>, <<"I","B","M","D","B","2">>, <<"i","b","m"," "," ","d","b","2">>,
                  <<"m","y","_","s","q","l">>, <<"P","o","s","t","g","r","e">>, <<"d","b">>, <<"O","r","a","c","l","e","1","2","c">>, <<"h","2">> }

DbNameInputs(aliases) == (UNION { CaseVariants(a) : a \in aliases }) \cup OtherDbNames

InitDb ==
    /\ EngineIdle
    /\ \E name \in DbNameInputs(AllAliases) : call = Pending("_normalize_db_name", name)

NormalizeDbName ==
    /\ IsPending("_normalize_db_name")
    /\ call' = Returned(call, _normalize_db_name(call.arg))
    /\ UNCHANGED engine_vars

NextDb == NormalizeDbName

SpecDb == InitDb /\ [][NextDb]_vars

(***************************************************************************)
(* C10                                                                     *)
(***************************************************************************)
\* the alias table as the interface description gives it: <<alias, canonical token>>
AliasTable ==
    { <<<<"O","R","A","C","L","E">>, <<"O","R","A">>>>, <<<<"M","Y","S","Q","L">>, <<"M","Y">>>>, <<<<"M","A","R","I","A","D","B">>, <<"M","D","B">>>>,
      <<<<"P","O","S","T","G","R","E","S">>, <<"P","G">>>>, <<<<"P","O","S","T","G","R","E","S","Q","L">>, <<"P","G">>>>, <<<<"S","Q","L","S","E","R","V","E","R">>, <<"S","S">>>>,
      <<<<"M","S","S","Q","L">>, <<"S","S">>>>, <<<<"A","L","T","I","B","A","S","E">>, <<"A","L","T">>>>, <<<<"I","B","M"," ","D","B","2">>, <<"D","B","2">>>> }
CanonicalTokens == { <<"O","R","A">>, <<"M","Y">>, <<"M","D","B">>, <<"P","G">>, <<"S","S">>, <<"A","L","T">>, <<"D","B","2">> }

\* C10: _normalize_db_name maps every alias of the table, in any letter case, to its
\* canonical token, every canonical token (in any letter case) to itself, and any
\* other name to the name upper-cased; "mysql" and "MY" give "MY", "foo" gives "FOO".
C10_NormalizeDbName ==
    IsReturned("_normalize_db_name") =>
        LET up == Upper(call.arg)
        IN  /\ \A p \in AliasTable : up = p[1] => call.ret = p[2]
            /\ up \in CanonicalTokens => call.ret = up
            /\ (up \notin CanonicalTokens /\ \A p \in AliasTable : up # p[1]) => call.ret = up
            /\ call.arg = <<"m","y","s","q","l">> => call.ret = <<"M","Y">>
            /\ call.arg = <<"M","Y">> => call.ret = <<"M","Y">>
            /\ call.arg = <<"f","o","o">> => call.ret = <<"F","O","O">>

\* an alias written in mixed case has been normalized to its canonical token
C10_Witness ==
    /\ IsReturned("_normalize_db_name")
    /\ call.arg = <<"P","o","s","t","g","r","e","S","q","l">>
    /\ call.ret = <<"P","G">>

(***************************************************************************)
(* _get_complexity_level.  A score is the rational num/den (den > 0); the  *)
(* labels are the source's labels in English.                              *)
(***************************************************************************)
\* float('inf')
Inf == -1

\* conversion: '매우 낮음', '낮음', '중간', '높음', '매우 높음'
Conv_COMPLEXITY_LEVELS == <<
    [level |-> "very_low",  min |-> 0,   max |-> 10],
    [level |-> "low",       min |-> 10,  max |-> 30],
    [level |-> "medium",    min |-> 30,  max |-> 60],
    [level |-> "high",      min |-> 60,  max |-> 100],
    [level |-> "very_high", min |-> 100, max |-> Inf] >>

\* structural: '매우 단순', '단순', '보통', '복잡', '매우 복잡'
St_COMPLEXITY_LEVELS == <<
    [level |-> "very_simple",  min |-> 0, max |-> 2],
    [level |-> "simple",       min |-> 2, max |-> 4],
    [level |-> "moderate",     min |-> 4, max |-> 6],
    [level |-> "complex",      min |-> 6, max |-> 8],
    [level |-> "very_complex", min |-> 8, max |-> 10] >>

\* a band test that lets the upper edge in
Mutant_InBand_Closed(level, num, den) ==
    /\ level.min * den <= num
    /\ (level.max = Inf \/ num <= level.max * den)

\* level['min'] <= score < level['max']
InBand(level, num, den) ==
    /\ level.min * den <= num
    /\ (level.max = Inf \/ num < level.max * den)

\* the for loop over the bands from band k on, then the fallback label
RECURSIVE LevelFrom(_, _, _, _, _)
LevelFrom(levels, fallback, num, den, k) ==
    IF k > Len(levels) THEN fallback
    ELSE IF InBand(levels[k], num, den) THEN levels[k].level
    ELSE LevelFrom(levels, fallback, num, den, k + 1)

Conv_get_complexity_level(num, den) ==
    LevelFrom(Conv_COMPLEXITY_LEVELS, "very_high", num, den, 1)

St_get_complexity_level(num, den) ==
    LevelFrom(St_COMPLEXITY_LEVELS, "very_complex", num, den, 1)

(***************************************************************************)
(* SpecLevel: _get_complexity_level of both engines on scores >= 0         *)
(***************************************************************************)
\* the largest conversion score tried, in points, and the grid it is tried on
MaxConvLevelScore == 105
ConvLevelGrid == 4
\* the largest structural score tried, in points, and the grid it is tried on
MaxStLevelScore == 11
StLevelGrid == 200

InitLevel ==
    /\ EngineIdle
    /\ \/ \E num \in 0..(MaxConvLevelScore * ConvLevelGrid) :
              call = Pending("Conv_get_complexity_level", [num |-> num, den |-> ConvLevelGrid])
       \/ \E num \in 0..(MaxStLevelScore * StLevelGrid) :
              call = Pending("St_get_complexity_level", [num |-> num, den |-> StLevelGrid])

ConvGetComplexityLevel ==
    /\ IsPending("Conv_get_complexity_level")
    /\ call' = Returned(call, Conv_get_complexity_level(call.arg.num, call.arg.den))
    /\ UNCHANGED engine_vars

StGetComplexityLevel ==
    /\ IsPending("St_get_complexity_level")
    /\ call' = Returned(call, St_get_complexity_level(call.arg.num, call.arg.den))
    /\ UNCHANGED engine_vars

NextLevel == ConvGetComplexityLevel \/ StGetComplexityLevel

SpecLevel == InitLevel /\ [][NextLevel]_vars

(***************************************************************************)
(* C4                                                                      *)
(***************************************************************************)
\* the label the band list [0,e1),[e1,e2),[e2,e3),[e3,e4),[e4,..) gives num/den:
\* a score on an edge belongs to the band above it, and everything from e4 on,
\* however large, gets the last label
BandLabel(edges, labels, num, den) ==
    IF num < edges[1] * den THEN labels[1]
    ELSE IF num < edges[2] * den THEN labels[2]
    ELSE IF num < edges[3] * den THEN labels[3]
    ELSE IF num < edges[4] * den THEN labels[4]
    ELSE labels[5]

\* C4: in both engines _get_complexity_level gives every score >= 0 the label of the
\* one half-open band [min, max) that holds it (conversion edges 10, 30, 60, 100;
\* structural edges 2, 4, 6, 8), an edge belonging to the band above, and a score at or
\* above the last band's upper edge (structural 10) the highest label.
C4_ComplexityLevel ==
    /\ IsReturned("Conv_get_complexity_level") =>
           call.ret = BandLabel(<<10, 30, 60, 100>>,
                                <<"very_low", "low", "medium", "high", "very_high">>,
                                call.arg.num, call.arg.den)
    /\ IsReturned("St_get_complexity_level") =>
           call.ret = BandLabel(<<2, 4, 6, 8>>,
                                <<"very_simple", "simple", "moderate", "complex", "very_complex">>,
                                call.arg.num, call.arg.den)

\* the structural score exactly 10, the upper edge of the last band, has been labelled
C4_Witness ==
    /\ IsReturned("St_get_complexity_level")
    /\ call.arg.num = 10 * call.arg.den
    /\ call.ret = "very_complex"

(***************************************************************************)
(* _calculate_normalized_score.  Category raw scores are integers; the     *)
(* weights are held in percent and the result in units of 1/200 point,     *)
(* the unit in which every term normalized * weight is an integer.         *)
(***************************************************************************)
\* CATEGORY_WEIGHTS in the dict's order, in percent
CATEGORY_WEIGHTS == <<
    [category |-> "structural",          weight |-> 30],
    [category |-> "clause",              weight |-> 15],
    [category |-> "function_expression", weight |-> 20],
    [category |-> "query_metric",        weight |-> 10],
    [category |-> "dbms_specific",       weight |-> 25] >>

CATEGORY_MAX_SCORES ==
    [c \in {"structural", "clause", "function_expression", "query_metric", "dbms_specific"} |->
        CASE c = "structural" -> 100
          [] c = "clause" -> 50
          [] c = "function_expression" -> 80
          [] c = "query_metric" -> 40
          [] c = "dbms_specific" -> 100]

Categories == DOMAIN CATEGORY_MAX_SCORES

\* category_scores.get(category, 0)
CategoryScoreOf(category_scores, category) ==
    IF category \in DOMAIN category_scores THEN category_scores[category] ELSE 0

\* the term without the clamp at 10
Mutant_NormalizedTimesWeight_NoClamp(raw_score, max_score, weight) ==
    (raw_score * 10 * 2 * weight) \div max_score

\* min(raw_score / max_score * 10, 10) * weight, in 1/200 point: the quotient is
\* exact, 20 * weight / max_score being 6, 6, 5, 5, 5 for the five categories
NormalizedTimesWeight(raw_score, max_score, weight) ==
    (Min(raw_score * 10, 10 * max_score) * 2 * weight) \div max_score

\* the for loop over CATEGORY_WEIGHTS from entry k on
RECURSIVE WeightedSumFrom(_, _)
WeightedSumFrom(category_scores, k) ==
    IF k > Len(CATEGORY_WEIGHTS) THEN 0
    ELSE LET category == CATEGORY_WEIGHTS[k].category
         IN  NormalizedTimesWeight(CategoryScoreOf(category_scores, category),
                                   CATEGORY_MAX_SCORES[category],
                                   CATEGORY_WEIGHTS[k].weight)
             + WeightedSumFrom(category_scores, k + 1)

\* the normalized score, in 1/200 point
_calculate_normalized_score(category_scores) == WeightedSumFrom(category_scores, 1)

(***************************************************************************)
(* SpecNorm: _calculate_normalized_score on category raw scores >= 0       *)
(***************************************************************************)
\* a category raw score far above every category maximum
HugeCategoryScore == 1000000

\* the raw scores tried for a category: none, just around its maximum, far above it
CategoryScoreInputs(c) ==
    <<0, 1, CATEGORY_MAX_SCORES[c] - 1, CATEGORY_MAX_SCORES[c], CATEGORY_MAX_SCORES[c] + 1,
      HugeCategoryScore>>

\* the dicts score_query can build, a key only for a category that has a match:
\* pick[c] = 0 leaves category c out, pick[c] = k gives it the k-th score tried
CategoryScoresInputs(categories) ==
    { [c \in {d \in categories : pick[d] # 0} |-> CategoryScoreInputs(c)[pick[c]]]
      : pick \in [categories -> 0..6] }

InitNorm ==
    /\ EngineIdle
    /\ \E category_scores \in CategoryScoresInputs(Categories) :
           call = Pending("_calculate_normalized_score", category_scores)

CalculateNormalizedScore ==
    /\ IsPending("_calculate_normalized_score")
    /\ call' = Returned(call, _calculate_normalized_score(call.arg))
    /\ UNCHANGED engine_vars

NextNorm == CalculateNormalizedScore

SpecNorm == InitNorm /\ [][NextNorm]_vars

(***************************************************************************)
(* C3                                                                      *)
(***************************************************************************)
\* one category's share in 1/200 point: raw / max * 10, clamped to 10, times pct / 100
CategoryShare(scores, c, max, pct) ==
    LET raw == IF c \in DOMAIN scores THEN scores[c] ELSE 0
        scaled200 == (raw * 10 * 200) \div max
    IN  ((IF scaled200 > 10 * 200 THEN 10 * 200 ELSE scaled200) * pct) \div 100

\* C3: for category raw scores >= 0, however large, _calculate_normalized_score lies
\* in [0, 10]: each category is divided by its maximum (100, 50, 80, 40, 100), scaled
\* by 10, clamped to 10 and weighted by 0.30, 0.15, 0.20, 0.10, 0.25.
C3_NormalizedScoreBounded ==
    IsReturned("_calculate_normalized_score") =>
        /\ 0 <= call.ret
        /\ call.ret <= 10 * 200
        /\ call.ret = CategoryShare(call.arg, "structural", 100, 30)
                      + CategoryShare(call.arg, "clause", 50, 15)
                      + CategoryShare(call.arg, "function_expression", 80, 20)
                      + CategoryShare(call.arg, "query_metric", 40, 10)
                      + CategoryShare(call.arg, "dbms_specific", 100, 25)

\* every category far above its maximum: the score is exactly 10
C3_Witness ==
    /\ IsReturned("_calculate_normalized_score")
    /\ \A c \in Categories : c \in DOMAIN call.arg /\ call.arg[c] = HugeCategoryScore
    /\ call.ret = 10 * 200

(***************************************************************************)
(* _preprocess_sql.  Positions are Python's: the character s[p] of the     *)
(* code is At(s, p).  Each re.sub is a left-to-right scan that replaces    *)
(* the leftmost match and goes on after it.                                *)
(***************************************************************************)
At(s, p) == s[p + 1]

\* str.find(lit, p): the first position >= p where lit starts, or -1
Find(s, lit, p) == First(LAMBDA q : HasAt(s, q, lit), p, Len(s) - Len(lit))

\* re.sub from position p on, a scan from left to right: at a position i where
\* a match ends at match_end[i] # -1 the text repl[i] takes the place of
\* s[i:match_end[i]] and the scan goes on after the match
Sub(s, p, match_end, repl) ==
    LET Turn(i, st) ==
            LET e == match_end[i]
            IN  IF i < st.next THEN st
                ELSE IF e # -1 THEN [out |-> st.out \o repl[i], next |-> e]
                ELSE [out |-> Append(st.out, At(s, i)), next |-> i + 1]
    IN  Loop(Turn, p, Len(s), [out |-> <<>>, next |-> p]).out

CDATA_OPEN == <<"<","!","[","C","D","A","T","A","[">>
CDATA_CLOSE == <<"]","]",">">>

\* re.sub(r'<!\[CDATA\[(.*?)\]\]>', r'\1', sql, flags=re.DOTALL) from position p on
UnwrapCdata(s, p) ==
    LET match_end == [i \in 0..(Len(s) - 1) |->
            Let(IF HasAt(s, i, CDATA_OPEN) THEN Find(s, CDATA_CLOSE, i + Len(CDATA_OPEN))
                ELSE -1,
                LAMBDA q : IF q # -1 THEN q + Len(CDATA_CLOSE) ELSE -1)]
        group1 == [i \in 0..(Len(s) - 1) |->
            Slice(s, i + Len(CDATA_OPEN), match_end[i] - Len(CDATA_CLOSE))]
    IN  Sub(s, p, match_end, group1)

\* if|choose|when|otherwise|foreach|where|set|trim
TAG_NAMES == << <<"i","f">>, <<"c","h","o","o","s","e">>, <<"w","h","e","n">>, <<"o","t","h","e","r","w","i","s","e">>, <<"f","o","r","e","a","c","h">>, <<"w","h","e","r","e">>, <<"s","e","t">>, <<"t","r","i","m">> >>

\* re.sub(r'<(if|choose|...)[^>]*>', ' ', sql, flags=re.IGNORECASE) from position p on;
\* su is sql upper-cased.  No tag name holds '>', so a tag ends at the first '>'.
StripOpenTags(s, su, p) ==
    LET match_end == [i \in 0..(Len(s) - 1) |->
            Let(IF /\ At(s, i) = "<"
                   /\ \E k \in DOMAIN TAG_NAMES : HasAt(su, i + 1, Upper(TAG_NAMES[k]))
                THEN Find(s, <<">">>, i + 1)
                ELSE -1,
                LAMBDA q : IF q # -1 THEN q + 1 ELSE -1)]
        blank == [i \in 0..(Len(s) - 1) |-> <<" ">>]
    IN  Sub(s, p, match_end, blank)

\* the length of the closing tag at position p, or 0
CloseTagAt(su, p) ==
    Let({ k \in DOMAIN TAG_NAMES : HasAt(su, p, <<"<","/">> \o Upper(TAG_NAMES[k]) \o <<">">>) },
        LAMBDA hit : IF hit = {} THEN 0 ELSE Len(TAG_NAMES[CHOOSE k \in hit : TRUE]) + 3)

\* re.sub(r'</(if|choose|...)>', ' ', sql, flags=re.IGNORECASE) from position p on
StripCloseTags(s, su, p) ==
    LET match_end == [i \in 0..(Len(s) - 1) |->
            IF At(s, i) = "<"
            THEN Let(CloseTagAt(su, i), LAMBDA n : IF n > 0 THEN i + n ELSE -1)
            ELSE -1]
        blank == [i \in 0..(Len(s) - 1) |-> <<" ">>]
    IN  Sub(s, p, match_end, blank)

\* re.sub(r'#\{[^}]+\}', '?', sql) for sigil '#', re.sub(r'\$\{[^}]+\}', '?', sql) for
\* sigil '$', from position p on: the braces hold at least one character
ReplacePlaceholders(s, sigil, p) ==
    LET match_end == [i \in 0..(Len(s) - 1) |->
            Let(IF HasAt(s, i, <<sigil, "{">>) THEN Find(s, <<"}">>, i + 2) ELSE -1,
                LAMBDA q : IF q # -1 /\ q >= i + 3 THEN q + 1 ELSE -1)]
        mark == [i \in 0..(Len(s) - 1) |-> <<"?">>]
    IN  Sub(s, p, match_end, mark)

\* the first position >= p that holds no whitespace
SkipSpaces(s, p) ==
    Let(First(LAMBDA i : ~IsSpace(At(s, i)), p, Len(s) - 1),
        LAMBDA q : IF q # -1 THEN q ELSE Max(p, Len(s)))

\* re.sub(r'\s+', ' ', sql) from position p on
CollapseSpaces(s, p) ==
    LET match_end == [i \in 0..(Len(s) - 1) |-> IF IsSpace(At(s, i)) THEN SkipSpaces(s, i) ELSE -1]
        blank == [i \in 0..(Len(s) - 1) |-> <<" ">>]
    IN  Sub(s, p, match_end, blank)

\* the position after the last character that is no whitespace
TrimEnd(s, e) ==
    Let(First(LAMBDA k : ~IsSpace(At(s, e - 1 - k)), 0, e - 1),
        LAMBDA d : IF d # -1 THEN e - d ELSE Min(e, 0))

\* str.strip()
Strip(s) == Slice(s, SkipSpaces(s, 0), TrimEnd(s, Len(s)))

\* the steps of _preprocess_sql past the removal of the opening tags
PreprocessTagless(s2) ==
    LET s3 == StripCloseTags(s2, Upper(s2), 0)
        s4 == ReplacePlaceholders(s3, "#", 0)
        s5 == ReplacePlaceholders(s4, "$", 0)
    IN  Strip(CollapseSpaces(s5, 0))

_preprocess_sql(sql) ==
    Let(UnwrapCdata(sql, 0),
        LAMBDA s1 : Let(StripOpenTags(s1, Upper(s1), 0), LAMBDA s2 : PreprocessTagless(s2)))

(***************************************************************************)
(* SpecPre: _preprocess_sql on texts put together from template pieces     *)
(***************************************************************************)
PrePieces == << CDATA_OPEN, CDATA_CLOSE, <<"<","i","f">>, <<">">>, <<"<","/","I","f",">">>, <<"#","{">>, <<"$","{">>, <<"}">>, <<"x">>, <<" ">> >>

\* the most pieces a text is put together from
MaxPrePieces == 4

RECURSIVE Concat(_)
Concat(parts) == IF parts = <<>> THEN <<>> ELSE Head(parts) \o Concat(Tail(parts))

\* the texts put together from lo to hi pieces
PiecedTexts(pieces, lo, hi) ==
    UNION { { Concat([k \in 1..n |-> pieces[pick[k]]]) : pick \in [1..n -> DOMAIN pieces] }
            : n \in lo..hi }

InitPre ==
    /\ EngineIdle
    /\ \E sql \in PiecedTexts(PrePieces, 0, MaxPrePieces) : call = Pending("_preprocess_sql", sql)

PreprocessSql ==
    /\ IsPending("_preprocess_sql")
    /\ call' = Returned(call, _preprocess_sql(call.arg))
    /\ UNCHANGED engine_vars

NextPre == PreprocessSql

SpecPre == InitPre /\ [][NextPre]_vars

(***************************************************************************)
(* C9                                                                      *)
(***************************************************************************)
\* C9: _preprocess_sql is idempotent: preprocessing a preprocessed text, whatever
\* CDATA sections, template tags and placeholders the raw text held, returns it
\* unchanged.
C9_PreprocessIdempotent ==
    IsReturned("_preprocess_sql") => _preprocess_sql(call.ret) = call.ret

(***************************************************************************)
(* _calculate_metrics: subquery depth                                      *)
(***************************************************************************)
\* the cap of the reported depth: min(max_depth, 5)
MAX_SUBQUERY_DEPTH == 5

\* a loop body that decrements on every ')'
Mutant_DepthStep_NoFloor(sql, sql_upper, i, current_depth, max_depth) ==
    IF At(sql, i) = "(" /\ HasAt(sql_upper, i, <<"(","S","E","L","E","C","T">>)
    THEN [current_depth |-> current_depth + 1, max_depth |-> Max(max_depth, current_depth + 1)]
    ELSE IF At(sql, i) = ")"
    THEN [current_depth |-> current_depth - 1, max_depth |-> max_depth]
    ELSE [current_depth |-> current_depth, max_depth |-> max_depth]

\* one turn of the while loop at position i: sql_upper[i:i+10].startswith('(SELECT')
\* holds when the 7 characters from i on are '(SELECT'
DepthStep(sql, sql_upper, i, current_depth, max_depth) ==
    IF At(sql, i) = "(" /\ HasAt(sql_upper, i, <<"(","S","E","L","E","C","T">>)
    THEN [current_depth |-> current_depth + 1, max_depth |-> Max(max_depth, current_depth + 1)]
    ELSE IF At(sql, i) = ")" /\ current_depth > 0
    THEN [current_depth |-> current_depth - 1, max_depth |-> max_depth]
    ELSE [current_depth |-> current_depth, max_depth |-> max_depth]

\* the while loop from position i on; its value is max_depth at the end
DepthScan(sql, sql_upper, i, current_depth, max_depth) ==
    LET Turn(k, st) == DepthStep(sql, sql_upper, k, st.current_depth, st.max_depth)
    IN  Loop(Turn, i, Len(sql), [current_depth |-> current_depth, max_depth |-> max_depth]).max_depth

\* metrics['subquery_depth']
SubqueryDepth(sql) == Min(DepthScan(sql, Upper(sql), 0, 0, 0), MAX_SUBQUERY_DEPTH)

(***************************************************************************)
(* SpecDepth: the subquery depth scan, one loop turn per step, on texts    *)
(* put together from parentheses, balanced or not                          *)
(***************************************************************************)
DepthPieces == << <<"(","S","E","L","E","C","T">>, <<"(","s","e","l","e","c","t">>, <<")">>, <<"(","a">> >>

\* the most pieces a text is put together from
MaxDepthPieces == 6

InitDepth ==
    /\ EngineIdle
    /\ \E sql \in PiecedTexts(DepthPieces, 0, MaxDepthPieces) :
           call = [fn |-> "subquery_depth", arg |-> sql, done |-> FALSE,
                   i |-> 0, current_depth |-> 0, max_depth |-> 0, ret |-> 0]

\* one turn of the while loop
DepthLoopTurn ==
    /\ IsPending("subquery_depth")
    /\ call.i < Len(call.arg)
    /\ LET st == DepthStep(call.arg, Upper(call.arg), call.i, call.current_depth, call.max_depth)
       IN  call' = [call EXCEPT !.i = call.i + 1,
                                !.current_depth = st.current_depth,
                                !.max_depth = st.max_depth]
    /\ UNCHANGED engine_vars

\* the loop has ended: metrics['subquery_depth'] = min(max_depth, 5)
DepthLoopEnd ==
    /\ IsPending("subquery_depth")
    /\ call.i >= Len(call.arg)
    /\ call' = [call EXCEPT !.done = TRUE, !.ret = Min(call.max_depth, MAX_SUBQUERY_DEPTH)]
    /\ UNCHANGED engine_vars

NextDepth == DepthLoopTurn \/ DepthLoopEnd

SpecDepth == InitDepth /\ [][NextDepth]_vars

(***************************************************************************)
(* C5                                                                      *)
(***************************************************************************)
\* C5: for every text, unbalanced and stray parentheses included, the running depth
\* counter of the scan never goes below 0 and the subquery_depth metric is an integer
\* in 0..5.
C5_SubqueryDepthBounded ==
    call.fn = "subquery_depth" =>
        /\ call.current_depth >= 0
        /\ call.done => /\ call.ret \in 0..5
                        /\ call.ret = SubqueryDepth(call.arg)

\* six subqueries opened in each other and never closed: the depth is capped at 5
C5_Witness ==
    /\ IsReturned("subquery_depth")
    /\ call.max_depth = 6
    /\ call.current_depth = 6
    /\ call.ret = 5

(***************************************************************************)
(* _calculate_metrics: top-level select column count                       *)
(***************************************************************************)
\* a search that takes the first FROM between non-alphanumeric characters at
\* any parenthesis depth
Mutant_FindTopLevelFrom_AnyDepth(sql, sql_upper, i, depth) ==
    First(LAMBDA k : /\ HasAt(sql_upper, k, <<"F","R","O","M">>)
                     /\ (k = 0 \/ ~IsAlnum(At(sql, k - 1)))
                     /\ (k + 4 >= Len(sql) \/ ~IsAlnum(At(sql, k + 4))),
          i, Len(sql) - 4)

\* the while loop that looks for the top-level FROM, from position i on at
\* parenthesis depth `depth`; its value is from_pos
FindTopLevelFrom(sql, sql_upper, i, depth) ==
    LET Turn(k, st) ==
            IF st.from_pos # -1 THEN st
            ELSE IF At(sql, k) = "(" THEN [st EXCEPT !.depth = @ + 1]
            ELSE IF At(sql, k) = ")" THEN [st EXCEPT !.depth = @ - 1]
            ELSE IF /\ st.depth = 0
                    /\ HasAt(sql_upper, k, <<"F","R","O","M">>)
                    /\ (k = 0 \/ ~IsAlnum(At(sql, k - 1)))
                    /\ (k + 4 >= Len(sql) \/ ~IsAlnum(At(sql, k + 4)))
                 THEN [st EXCEPT !.from_pos = k]
            ELSE st
    IN  Loop(Turn, i, Len(sql) - 3, [depth |-> depth, from_pos |-> -1]).from_pos

\* the position after a match of r'^\s*(ALL\s+)?DISTINCT\s+' (IGNORECASE), or 0
\* when the pattern does not match at the start of s
DistinctPrefixEnd(s) ==
    Let(Upper(s), LAMBDA su :
    Let(SkipSpaces(s, 0), LAMBDA p0 :
    \* p1: the position after ALL and the whitespace that follows it
    Let(IF HasAt(su, p0, <<"A","L","L">>) THEN SkipSpaces(s, p0 + 3) ELSE p0, LAMBDA p1 :
    \* (ALL\s+)? is tried first and given up when DISTINCT does not follow it
    Let(IF p1 > p0 + 3 /\ HasAt(su, p1, <<"D","I","S","T","I","N","C","T">>) THEN p1 ELSE p0,
        LAMBDA p2 :
    Let(IF HasAt(su, p2, <<"D","I","S","T","I","N","C","T">>) THEN SkipSpaces(s, p2 + 8) ELSE 0,
        LAMBDA end : IF end > p2 + 8 THEN end ELSE 0)))))

\* a strip that takes DISTINCT off only when no ALL stands before it
Mutant_StripDistinct_NoAll(s) ==
    LET p0 == SkipSpaces(s, 0)
    IN  IF HasAt(Upper(s), p0, <<"D","I","S","T","I","N","C","T">>) /\ SkipSpaces(s, p0 + 8) > p0 + 8
        THEN SliceFrom(s, SkipSpaces(s, p0 + 8))
        ELSE s

\* re.sub(r'^\s*(ALL\s+)?DISTINCT\s+', '', select_clause, flags=re.IGNORECASE)
StripDistinct(s) == SliceFrom(s, DistinctPrefixEnd(s))

\* the first position >= p that holds no \w character
SkipWord(s, p) ==
    Let(First(LAMBDA i : ~IsWord(At(s, i)), p, Len(s) - 1),
        LAMBDA q : IF q # -1 THEN q ELSE Max(p, Len(s)))

\* re.match(r'^\s*\*\s*$', s)
MatchesStar(s) ==
    Let(SkipSpaces(s, 0), LAMBDA p : HasAt(s, p, <<"*">>) /\ SkipSpaces(s, p + 1) = Len(s))

\* re.match(r'^\s*\w+\.\*\s*$', s)
MatchesQualifiedStar(s) ==
    Let(SkipSpaces(s, 0), LAMBDA p :
    Let(SkipWord(s, p), LAMBDA q :
        q > p /\ HasAt(s, q, <<".","*">>) /\ SkipSpaces(s, q + 2) = Len(s)))

\* the first position >= p that holds '(' or ')', or -1
NextParen(s, p) == First(LAMBDA i : At(s, i) \in {"(", ")"}, p, Len(s) - 1)

\* re.search(r'\([^()]*\)', s): the start of the leftmost group that holds no
\* parenthesis, looked for from position p on, or -1
SearchGroup(s, p) ==
    First(LAMBDA i : /\ At(s, i) = "("
                     /\ Let(NextParen(s, i + 1), LAMBDA q : q # -1 /\ At(s, q) = ")"),
          p, Len(s) - 1)

\* range(50)
PLACEHOLDER_ROUNDS == 50

\* the for loop of n rounds: a group becomes '__PH__'; a round that finds no
\* group leaves the text as it is, and so do the rounds after it (the break)
MaskGroups(processed, n) ==
    LET Round(r, text) ==
            Let(SearchGroup(text, 0),
                LAMBDA start :
                    IF start = -1 THEN text
                    ELSE Slice(text, 0, start) \o <<"_","_","P","H","_","_">>
                         \o SliceFrom(text, NextParen(text, start + 1) + 1))
    IN  Loop(Round, 0, n, processed)

\* str.count of one character
CountChar(s, c) == Cardinality({ k \in DOMAIN s : s[k] = c })

\* a count that takes every comma, inside parentheses or not
Mutant_CountColumns_NoMask(select_clause_clean) ==
    CountChar(select_clause_clean, ",") + 1

\* processed.count(',') + 1 after the placeholder loop
CountColumns(select_clause_clean) ==
    CountChar(MaskGroups(select_clause_clean, PLACEHOLDER_ROUNDS), ",") + 1

\* metrics['select_column_count']
\* the count for the select-list between start_pos and from_pos
SelectListCount(sql, start_pos, from_pos) ==
    Let(StripDistinct(Strip(Slice(sql, start_pos, from_pos))),
        LAMBDA select_clause_clean :
            IF MatchesStar(select_clause_clean) THEN -1
            ELSE IF MatchesQualifiedStar(select_clause_clean) THEN -1
            ELSE CountColumns(select_clause_clean))

\* metrics['select_column_count']
SelectColumnCount(sql) ==
    Let(Upper(sql), LAMBDA sql_upper :
    Let(Find(sql_upper, <<"S","E","L","E","C","T">>, 0), LAMBDA select_start :
        IF select_start = -1 THEN 0
        ELSE Let(FindTopLevelFrom(sql, sql_upper, select_start + 6, 0),
                 LAMBDA from_pos :
                     IF from_pos = -1 THEN 0
                     ELSE SelectListCount(sql, select_start + 6, from_pos))))

(***************************************************************************)
(* SpecSelect: the select column count of SELECT <prefix><list> FROM t     *)
(***************************************************************************)
ListPieces == << <<"a">>, <<",">>, <<"(">>, <<")">> >>

\* the most pieces a select-list is put together from
MaxSelectPieces == 5

\* n columns f(a,b), separated by commas: n groups, n - 1 commas outside them
CallColumns(n) ==
    [k \in 1..(7 * n - 1) |-> <<"f","(","a",",","b",")",",">>[((k - 1) % 7) + 1]]

WrittenLists(rounds) ==
    { <<"a",","," ","b",","," ","f","(","x",",","y",")",","," ","c">>, <<"f","(","g","(","x",",","y",")",",","h","(","z",",","w",")",")",","," ","c">>, <<"(","S","E","L","E","C","T"," ","m","a","x","(","x",")"," ","F","R","O","M"," ","u",")",","," ","a">>,
      CallColumns(rounds), CallColumns(rounds + 1) }

StarLists ==
    { <<"*">>, <<"t",".","*">>, <<"t","_","1",".","*">>, <<"T","2",".","*">>, <<"a",".","b",".","*">>, <<"*",",","a">>, <<".","*">>, <<"t",".","*","x">>, <<"t","."," ","*">>, <<"c","o","u","n","t","(","*",")">>,
      <<"t",".","*",",","u",".","*">>, <<"*","*">>, <<"a","*">>, <<"*",".","*">> }

SelectPrefixes ==
    { <<>>, <<"D","I","S","T","I","N","C","T"," ">>, <<"A","L","L"," ","D","I","S","T","I","N","C","T"," ">>, <<"d","i","s","t","i","n","c","t"," ">>, <<"A","l","l"," ","D","i","s","t","i","n","c","t"," ">>, <<"A","L","L"," ">>, <<"D","I","S","T","I","N","C","T">>,
      <<"D","I","S","T","I","N","C","T"," ","A","L","L"," ">> }

SelectSql(prefix, list) == <<"S","E","L","E","C","T"," ">> \o prefix \o list \o <<" ","F","R","O","M"," ","t">>

\* the texts handed to the scan are preprocessed texts
SelectInputs(max_pieces) ==
    { in \in ({ [prefix |-> <<>>, list |-> l] :
                  l \in PiecedTexts(ListPieces, 1, max_pieces) \cup WrittenLists(PLACEHOLDER_ROUNDS) }
              \cup [prefix : SelectPrefixes, list : StarLists]) :
          _preprocess_sql(SelectSql(in.prefix, in.list)) = SelectSql(in.prefix, in.list) }

InitSelect ==
    /\ EngineIdle
    /\ \E in \in SelectInputs(MaxSelectPieces) :
           call = [fn |-> "select_column_count", arg |-> SelectSql(in.prefix, in.list),
                   prefix |-> in.prefix, list |-> in.list, done |-> FALSE, ret |-> 0]

CalculateSelectColumnCount ==
    /\ IsPending("select_column_count")
    /\ call' = [call EXCEPT !.done = TRUE, !.ret = SelectColumnCount(call.arg)]
    /\ UNCHANGED engine_vars

NextSelect == CalculateSelectColumnCount

SpecSelect == InitSelect /\ [][NextSelect]_vars

(***************************************************************************)
(* C6, C7                                                                  *)
(***************************************************************************)
\* the select-list of SELECT <prefix><list> FROM t with a leading [ALL] DISTINCT
\* taken off
CleanedList(prefix, list) ==
    IF Upper(prefix) \in { <<"D","I","S","T","I","N","C","T"," ">>, <<"A","L","L"," ","D","I","S","T","I","N","C","T"," ">> } THEN list
    ELSE IF Upper(prefix) = <<"D","I","S","T","I","N","C","T"," ","A","L","L"," ">> THEN <<"A","L","L"," ">> \o list
    ELSE prefix \o list

\* l is exactly * or exactly identifier.*
IsStarList(l) ==
    \/ l = <<"*">>
    \/ /\ Len(l) >= 3
       /\ l[Len(l) - 1] = "."
       /\ l[Len(l)] = "*"
       /\ \A k \in 1..(Len(l) - 2) : IsWord(l[k])

\* the parentheses open after the first k characters of l
OpenAfter(l, k) ==
    Cardinality({ j \in 1..k : l[j] = "(" }) - Cardinality({ j \in 1..k : l[j] = ")" })

Balanced(l) ==
    /\ \A k \in 1..Len(l) : OpenAfter(l, k) >= 0
    /\ OpenAfter(l, Len(l)) = 0

GroupCount(l) == Cardinality({ j \in 1..Len(l) : l[j] = "(" })

\* the commas of l that lie outside all parentheses
TopLevelCommas(l) == Cardinality({ k \in 1..Len(l) : l[k] = "," /\ OpenAfter(l, k) = 0 })

\* C6: when the top-level select-list, a leading [ALL] DISTINCT taken off, is exactly
\* `*` or exactly `identifier.*`, select_column_count is -1; `SELECT * FROM t` and
\* `SELECT t.* FROM t` both give -1.
C6_SelectStarSentinel ==
    IsReturned("select_column_count") =>
        /\ IsStarList(CleanedList(call.prefix, call.list)) => call.ret = -1
        /\ call.arg = <<"S","E","L","E","C","T"," ","*"," ","F","R","O","M"," ","t">> => call.ret = -1
        /\ call.arg = <<"S","E","L","E","C","T"," ","t",".","*"," ","F","R","O","M"," ","t">> => call.ret = -1

\* SELECT ALL DISTINCT t_1.* FROM t has been counted
C6_Witness ==
    /\ IsReturned("select_column_count")
    /\ call.arg = <<"S","E","L","E","C","T"," ","A","L","L"," ","D","I","S","T","I","N","C","T"," ","t","_","1",".","*"," ","F","R","O","M"," ","t">>
    /\ call.ret = -1

\* C7: for a select-list with balanced parentheses and at most 50 parenthesized groups
\* that is no `*` form, select_column_count is 1 plus the number of commas outside all
\* parentheses, commas inside a group at any depth not counted;
\* `SELECT a, b, f(x,y), c FROM t` gives 4.
C7_SelectColumnCount ==
    IsReturned("select_column_count") =>
        /\ ( /\ Balanced(call.list)
             /\ GroupCount(call.list) <= 50
             /\ ~IsStarList(CleanedList(call.prefix, call.list)) )
           => call.ret = 1 + TopLevelCommas(call.list)
        /\ call.arg = <<"S","E","L","E","C","T"," ","a",","," ","b",","," ","f","(","x",",","y",")",","," ","c"," ","F","R","O","M"," ","t">> => call.ret = 4

\* a select-list with a comma inside a group nested in a group, and one outside
C7_Witness ==
    /\ IsReturned("select_column_count")
    /\ call.list = <<"f","(","g","(","x",",","y",")",",","h","(","z",",","w",")",")",","," ","c">>
    /\ call.ret = 2

(***************************************************************************)
(* _calculate_metrics: top-level WHERE condition count                     *)
(***************************************************************************)
\* end_keywords
END_KEYWORDS == << <<"G","R","O","U","P"," ","B","Y">>, <<"O","R","D","E","R"," ","B","Y">>, <<"H","A","V","I","N","G">>, <<"L","I","M","I","T">> >>

\* the for loop over end_keywords from keyword k on; its value is where_end
RECURSIVE WhereEnd(_, _, _, _)
WhereEnd(sql_upper, where_start, where_end, k) ==
    IF k > Len(END_KEYWORDS) THEN where_end
    ELSE Let(Find(sql_upper, END_KEYWORDS[k], where_start),
             LAMBDA pos : WhereEnd(sql_upper, where_start,
                                   IF pos # -1 /\ pos < where_end THEN pos ELSE where_end,
                                   k + 1))

\* the inner while loop: the first position >= j that holds none of ' \t\n'
SkipBlanks(s, j) ==
    Let(First(LAMBDA i : At(s, i) \notin {" ", "\t", "\n"}, j, Len(s) - 1),
        LAMBDA q : IF q # -1 THEN q ELSE Max(j, Len(s)))

\* a loop body that counts AND / OR at every depth
Mutant_WhereStep_AnyDepth(where_clause, where_upper, i, subquery_depth, and_or_count) ==
    [subquery_depth |-> subquery_depth,
     and_or_count |-> IF HasAt(where_upper, i, <<"A","N","D"," ">>) \/ HasAt(where_upper, i, <<"O","R"," ">>)
                      THEN and_or_count + 1 ELSE and_or_count]

\* one turn of the while loop at position i
WhereStep(where_clause, where_upper, i, subquery_depth, and_or_count) ==
    IF At(where_clause, i) = "("
    THEN [subquery_depth |-> IF HasAt(where_upper, SkipBlanks(where_clause, i + 1), <<"S","E","L","E","C","T">>)
                             THEN subquery_depth + 1 ELSE subquery_depth,
          and_or_count |-> and_or_count]
    ELSE IF At(where_clause, i) = ")" /\ subquery_depth > 0
    THEN [subquery_depth |-> subquery_depth - 1, and_or_count |-> and_or_count]
    ELSE IF subquery_depth = 0
    THEN [subquery_depth |-> subquery_depth,
          and_or_count |-> IF HasAt(where_upper, i, <<"A","N","D"," ">>) \/ HasAt(where_upper, i, <<"O","R"," ">>)
                           THEN and_or_count + 1 ELSE and_or_count]
    ELSE [subquery_depth |-> subquery_depth, and_or_count |-> and_or_count]

\* the while loop from position i on; its value is and_or_count at the end
WhereScan(where_clause, where_upper, i, subquery_depth, and_or_count) ==
    LET Turn(k, st) == WhereStep(where_clause, where_upper, k, st.subquery_depth, st.and_or_count)
    IN  Loop(Turn, i, Len(where_clause),
             [subquery_depth |-> subquery_depth, and_or_count |-> and_or_count]).and_or_count

\* metrics['where_condition_count']
WhereConditionCount(sql) ==
    Let(Upper(sql), LAMBDA sql_upper :
    Let(Find(sql_upper, <<"W","H","E","R","E">>, 0), LAMBDA where_start :
        IF where_start = -1 THEN 0
        ELSE Let(Slice(sql, where_start + 5, WhereEnd(sql_upper, where_start, Len(sql), 1)),
                 LAMBDA where_clause :
                     IF Strip(where_clause) # <<>>
                     THEN WhereScan(where_clause, Upper(where_clause), 0, 0, 0) + 1
                     ELSE 0)))

(***************************************************************************)
(* SpecWhere: the WHERE condition count of SELECT * FROM t WHERE <clause>  *)
(***************************************************************************)
WherePieces == << <<"a","=","1">>, <<" ","A","N","D"," ">>, <<" ","o","r"," ">>, <<"c"," ","I","N"," ","(","S","E","L","E","C","T"," ","x"," ","W","H","E","R","E"," ","p"," ","A","N","D"," ","q",")">>, <<"(">>, <<")">> >>

\* the most pieces a WHERE clause is put together from
MaxWherePieces == 4

WrittenClauses ==
    { <<"a","=","1"," ","A","N","D"," ","b","=","2"," ","A","N","D"," ","c"," ","I","N"," ","(","S","E","L","E","C","T"," ","x"," ","F","R","O","M"," ","y"," ","W","H","E","R","E"," ","p","=","1"," ","A","N","D"," ","q","=","2",")">>,
      <<"a","=","1"," ","A","N","D"," ","c"," ","I","N"," ","("," ","s","e","l","e","c","t"," ","x"," ","F","R","O","M"," ","y"," ","W","H","E","R","E"," ","p","=","1"," ","A","N","D"," ","q","=","2",")"," ","O","R"," ","d","=","4">>,
      <<"a","=","1"," ","A","N","D"," ","b","=","2"," ","G","R","O","U","P"," ","B","Y"," ","a"," ","H","A","V","I","N","G"," ","n",">","1"," ","A","N","D"," ","m",">","2">>,
      <<"a","=","1"," ","A","N","D"," ","b","=","2"," ","O","R","D","E","R"," ","B","Y"," ","a"," ","L","I","M","I","T"," ","3">>,
      <<"a","=","1"," ","A","N","D"," ","c"," ","I","N"," ","(","S","E","L","E","C","T"," ","m","a","x","(","x",")"," ","F","R","O","M"," ","y"," ","W","H","E","R","E"," ","p","=","1"," ","A","N","D"," ","q","=","2",")">>,
      <<"a","=","1"," ","A","N","D"," ","b"," ","I","N"," ","(","1",",","2",")"," ","A","N","D"," ","c","=","3">> }

WhereSql(clause) == <<"S","E","L","E","C","T"," ","*"," ","F","R","O","M"," ","t"," ","W","H","E","R","E"," ">> \o clause

\* the texts handed to the scan are preprocessed texts
WhereInputs(max_pieces) ==
    { <<"S","E","L","E","C","T"," ","*"," ","F","R","O","M"," ","t">> } \cup
    { sql \in { WhereSql(c) : c \in PiecedTexts(WherePieces, 0, max_pieces) \cup WrittenClauses } :
          _preprocess_sql(sql) = sql }

InitWhere ==
    /\ EngineIdle
    /\ \E sql \in WhereInputs(MaxWherePieces) : call = Pending("where_condition_count", sql)

CalculateWhereConditionCount ==
    /\ IsPending("where_condition_count")
    /\ call' = Returned(call, WhereConditionCount(call.arg))
    /\ UNCHANGED engine_vars

NextWhere == CalculateWhereConditionCount

SpecWhere == InitWhere /\ [][NextWhere]_vars

(***************************************************************************)
(* C8                                                                      *)
(***************************************************************************)
C8_Query == WhereSql(<<"a","=","1"," ","A","N","D"," ","b","=","2"," ","A","N","D"," ","c"," ","I","N"," ","(","S","E","L","E","C","T"," ","x"," ","F","R","O","M"," ","y"," ","W","H","E","R","E"," ","p","=","1"," ","A","N","D"," ","q","=","2",")">>)

\* C8 as claimed: for the WHERE clause
\* `WHERE a=1 AND b=2 AND c IN (SELECT x FROM y WHERE p=1 AND q=2)`
\* where_condition_count is 2.
C8_Claimed ==
    (IsReturned("where_condition_count") /\ call.arg = C8_Query) => call.ret = 2

\* C8 as amended: for that WHERE clause where_condition_count is 3, the two AND outside
\* the parenthesized subquery plus one; the AND inside the subquery is not counted.
C8_WhereConditionCount ==
    (IsReturned("where_condition_count") /\ call.arg = C8_Query) => call.ret = 3

\* the query of C8 has been counted
C8_Witness ==
    /\ IsReturned("where_condition_count")
    /\ call.arg = C8_Query
    /\ call.ret = 3

(***************************************************************************)
(* Rule dictionaries and compiled matchers.  A rule of the YAML file is a  *)
(* record that holds the keys the file gives it; a dictionary whose order  *)
(* the code walks is a sequence of <<key, value>> pairs.  Rule ids, grades *)
(* and category names are compared as wholes and are TLA+ strings;         *)
(* patterns and dialect names are looked into and are character sequences. *)
(***************************************************************************)
\* dict.get(key, default)
Get(d, key, default) == IF key \in DOMAIN d THEN d[key] ELSE default

\* compiled_rule['compiled_pattern'] = None
NonePattern == [kind |-> None]

\* Of the patterns of the re module the model holds two kinds: a text of word
\* characters and blanks, which matches itself, and a text with a '(' that is
\* never closed, which re.compile rejects with re.error
IsLiteralPattern(pattern) == \A k \in DOMAIN pattern : IsWord(pattern[k]) \/ pattern[k] = " "

\* the try / except around re.compile(pattern, re.IGNORECASE | re.DOTALL)
CompileRegex(pattern) ==
    IF IsLiteralPattern(pattern) THEN [kind |-> "regex", pattern |-> pattern] ELSE NonePattern

\* re.compile(r'\b' + re.escape(pattern) + r'\b', re.IGNORECASE): an escaped
\* text always compiles
CompileKeyword(pattern) == [kind |-> "keyword", pattern |-> pattern]

\* a matcher that is built for every detection method
Mutant_CompilePattern_AnyMethod(detection_method, pattern) ==
    IF pattern # <<>> THEN CompileKeyword(pattern) ELSE NonePattern

\* the if / elif / else that sets compiled_rule['compiled_pattern']
CompilePattern(detection_method, pattern) ==
    IF detection_method = "regex" /\ pattern # <<>> THEN CompileRegex(pattern)
    ELSE IF detection_method = "keyword" /\ pattern # <<>> THEN CompileKeyword(pattern)
    ELSE NonePattern

\* \b at position p of s: a word character on exactly one side
WordBoundary(s, p) ==
    (p > 0 /\ IsWord(At(s, p - 1))) # (p < Len(s) /\ IsWord(At(s, p)))

\* the matcher matches at position p of sql
MatchesAt(compiled_pattern, sql, sql_upper, p) ==
    /\ HasAt(sql_upper, p, Upper(compiled_pattern.pattern))
    /\ compiled_pattern.kind = "keyword" =>
           /\ WordBoundary(sql, p)
           /\ WordBoundary(sql, p + Len(compiled_pattern.pattern))

\* len(pattern.findall(sql)): the matches are taken from left to right and do
\* not overlap
FindallCount(compiled_pattern, sql) ==
    LET sql_upper == Upper(sql)
        Turn(i, st) ==
            IF i < st.next THEN st
            ELSE IF MatchesAt(compiled_pattern, sql, sql_upper, i)
                 THEN [count |-> st.count + 1, next |-> i + Len(compiled_pattern.pattern)]
                 ELSE st
    IN  Loop(Turn, 0, Len(sql), [count |-> 0, next |-> 0]).count

\* _count_pattern_matches: the match count (the matched strings are left out)
_count_pattern_matches(sql, compiled_pattern) == FindallCount(compiled_pattern, sql)

\* a value of the YAML file that is a mapping, a list, or a plain text
Dict(items) == [type |-> "dict", items |-> items]
List(items) == [type |-> "list", items |-> items]
Text == [type |-> "str"]
\* isinstance(v, dict) and isinstance(v, list)
IsDict(v) == v.type = "dict"
IsList(v) == v.type = "list"

(***************************************************************************)
(* Conversion engine: the rule catalog                                     *)
(***************************************************************************)
\* GRADE_COEFFICIENTS, in hundredths
GRADE_COEFFICIENTS == [A |-> 50, P |-> 100, M |-> 150]

\* an applicability test that lets a rule without applicable_db in
Mutant_is_applicable_rule_EmptyIsAll(rule, src_db) ==
    LET applicable_db == Get(rule, "applicable_db", <<>>)
    IN  applicable_db = <<>> \/ InList(<<"A","L","L">>, applicable_db) \/ InList(src_db, applicable_db)

_is_applicable_rule(rule, src_db) ==
    Let(Get(rule, "applicable_db", <<>>),
        LAMBDA applicable_db :
            IF applicable_db = <<>> THEN FALSE
            ELSE IF InList(<<"A","L","L">>, applicable_db) THEN TRUE
            ELSE InList(src_db, applicable_db))

\* the compiled_rule dict of _compile_patterns with its matcher; the fields
\* name, logic, group and note are copies that no score reads and are left out
Conv_compile_rule(rule, category_name, subcategory_name) ==
    [id |-> Get(rule, "id", ""),
     weight |-> Get(rule, "weight", 0),
     conversion_grade |-> Get(rule, "conversion_grade", "P"),
     detection_method |-> Get(rule, "detection_method", "regex"),
     pattern |-> Get(rule, "pattern", <<>>),
     category |-> category_name,
     subcategory |-> subcategory_name,
     compiled_pattern |-> CompilePattern(Get(rule, "detection_method", "regex"),
                                         Get(rule, "pattern", <<>>))]

\* _compile_patterns: the flat list of the applicable rules, in the file's order
_compile_patterns(rules, src_db) ==
    LET rules_section == Get(rules, "rules", Dict(<<>>))
        OfList(category_name, subcategory_name, rules_list, compiled) ==
            LET Turn(k, acc) ==
                    IF ~_is_applicable_rule(rules_list[k + 1], src_db) THEN acc
                    ELSE Append(acc, Conv_compile_rule(rules_list[k + 1], category_name,
                                                       subcategory_name))
            IN  Loop(Turn, 0, Len(rules_list), compiled)
        OfCategory(category_name, category_data, compiled) ==
            LET Turn(k, acc) ==
                    IF ~IsList(category_data.items[k + 1][2]) THEN acc
                    ELSE OfList(category_name, category_data.items[k + 1][1],
                                category_data.items[k + 1][2].items, acc)
            IN  Loop(Turn, 0, Len(category_data.items), compiled)
        Turn(k, acc) ==
            IF ~IsDict(rules_section.items[k + 1][2]) THEN acc
            ELSE OfCategory(rules_section.items[k + 1][1], rules_section.items[k + 1][2], acc)
    IN  Loop(Turn, 0, Len(rules_section.items), <<>>)

(***************************************************************************)
(* Conversion engine: score_query.  weighted_score is held in hundredths   *)
(* of a point; with whole weights it is a whole number of hundredths and   *)
(* round(weighted_score, 2) leaves it as it is.                            *)
(***************************************************************************)
\* self.rule_match_counts[rule_id] += match_count on a defaultdict(int), held
\* as its items: <<rule_id, count>> pairs in the order in which the keys came in
AddMatchCount(counts, rule_id, match_count) ==
    IF \E k \in DOMAIN counts : counts[k][1] = rule_id
    THEN [k \in DOMAIN counts |->
             IF counts[k][1] = rule_id THEN <<rule_id, counts[k][2] + match_count>>
             ELSE counts[k]]
    ELSE Append(counts, <<rule_id, match_count>>)

\* the number of characters of the sql that a QueryScore keeps
SQL_LIMIT == 500

\* a cut at the limit that leaves the mark out
Mutant_StoredSql_NoMark(sql) == Slice(sql, 0, SQL_LIMIT)

\* sql[:500] + '...' if len(sql) > 500 else sql
StoredSql(sql) ==
    IF Len(sql) > SQL_LIMIT THEN Slice(sql, 0, SQL_LIMIT) \o <<".",".",".">> ELSE sql

\* a sum that takes each matched rule once, whatever its match count
Mutant_RawScore_NoCount(matched_rules) ==
    LET Turn(k, sum) == sum + matched_rules[k + 1].weight
    IN  Loop(Turn, 0, Len(matched_rules), 0)

\* sum(r.weight * r.match_count for r in matched_rules)
RawScore(matched_rules) ==
    LET Turn(k, sum) == sum + matched_rules[k + 1].weight * matched_rules[k + 1].match_count
    IN  Loop(Turn, 0, Len(matched_rules), 0)

\* a coefficient of 1.0 for every grade
Mutant_GradeCoefficient_Flat(conversion_grade) == 100

\* self.GRADE_COEFFICIENTS.get(r.conversion_grade, 1.0), in hundredths
GradeCoefficient(conversion_grade) == Get(GRADE_COEFFICIENTS, conversion_grade, 100)

\* sum(r.weight * r.match_count * coefficient for r in matched_rules), in hundredths
WeightedScore(matched_rules) ==
    LET Turn(k, sum) ==
            sum + matched_rules[k + 1].weight * matched_rules[k + 1].match_count
                  * GradeCoefficient(matched_rules[k + 1].conversion_grade)
    IN  Loop(Turn, 0, Len(matched_rules), 0)

\* the body of the for loop over self.compiled_patterns past the count, for
\* the rule `rule` whose pattern has match_count matches
Conv_rule_matched(rule, match_count, st) ==
    IF match_count > 0
    THEN [matched_rules |->
              Append(st.matched_rules,
                     [rule_id |-> rule.id, weight |-> rule.weight,
                      conversion_grade |-> rule.conversion_grade,
                      category |-> rule.category, subcategory |-> rule.subcategory,
                      match_count |-> match_count]),
          grade_summary |->
              IF rule.conversion_grade \in DOMAIN st.grade_summary
              THEN [st.grade_summary EXCEPT ![rule.conversion_grade] = @ + match_count]
              ELSE st.grade_summary,
          rule_match_counts |-> AddMatchCount(st.rule_match_counts, rule.id, match_count)]
    ELSE st

\* one turn of the for loop over self.compiled_patterns, for the rule `rule`
Conv_rule_turn(rule, preprocessed_sql, st) ==
    IF rule.compiled_pattern.kind = None THEN st
    ELSE Let(_count_pattern_matches(preprocessed_sql, rule.compiled_pattern),
             LAMBDA match_count : Conv_rule_matched(rule, match_count, st))

\* the for loop over self.compiled_patterns, from empty results and the
\* counters `counts` on
Conv_rule_loop(compiled, counts, preprocessed_sql) ==
    LET Turn(k, st) == Conv_rule_turn(compiled[k + 1], preprocessed_sql, st)
    IN  Loop(Turn, 0, Len(compiled),
             [matched_rules |-> <<>>, grade_summary |-> [A |-> 0, P |-> 0, M |-> 0],
              rule_match_counts |-> counts])

\* the QueryScore built from the state `end` that the loop over the rules leaves
Conv_query_score(end, sql, query_name) ==
    Let(WeightedScore(end.matched_rules),
        LAMBDA weighted_score :
            [query_name |-> query_name,
             sql |-> StoredSql(sql),
             raw_score |-> RawScore(end.matched_rules),
             weighted_score |-> weighted_score,
             complexity_level |-> Conv_get_complexity_level(weighted_score, 100),
             matched_rules |-> end.matched_rules,
             grade_summary |-> end.grade_summary])

\* score_query of the conversion engine: the QueryScore it returns and the
\* rule-match counters it leaves
Conv_score_query(compiled, counts, sql, query_name) ==
    Let(_preprocess_sql(sql),
        LAMBDA preprocessed_sql :
            Let(Conv_rule_loop(compiled, counts, preprocessed_sql),
                LAMBDA end : [score |-> Conv_query_score(end, sql, query_name),
                              rule_match_counts |-> end.rule_match_counts]))

(***************************************************************************)
(* Structural engine: the rule catalog                                     *)
(***************************************************************************)
\* category_mapping of _map_category
CATEGORY_MAPPING ==
    [structural_join |-> "structural", structural_subquery |-> "structural",
     structural_cte |-> "structural", structural_set_operation |-> "structural",
     clause_select |-> "clause", clause_where |-> "clause", clause_group_order |-> "clause",
     function_aggregate |-> "function_expression", function_window |-> "function_expression",
     function_case |-> "function_expression", function_common |-> "function_expression",
     query_metric |-> "query_metric"]

_map_category(category_name) == Get(CATEGORY_MAPPING, category_name, "structural")

\* _compile_rule; the fields name, logic and note are left out
_compile_rule(rule, category, subcategory) ==
    [id |-> Get(rule, "id", ""),
     weight |-> Get(rule, "weight", 0),
     detection_method |-> Get(rule, "detection_method", "regex"),
     pattern |-> Get(rule, "pattern", <<>>),
     category |-> category,
     subcategory |-> subcategory,
     compiled_pattern |-> CompilePattern(Get(rule, "detection_method", "regex"),
                                         Get(rule, "pattern", <<>>))]

\* the rules of rules_list compiled and put after `compiled`
CompileList(rules_list, category, subcategory, compiled) ==
    LET Turn(k, acc) == Append(acc, _compile_rule(rules_list[k + 1], category, subcategory))
    IN  Loop(Turn, 0, Len(rules_list), compiled)

_compile_common_rules(rules) ==
    LET common == Get(rules, "common_rules", Dict(<<>>))
        Turn(k, acc) ==
            IF ~IsList(common.items[k + 1][2]) THEN acc
            ELSE CompileList(common.items[k + 1][2].items, _map_category(common.items[k + 1][1]),
                             common.items[k + 1][1], acc)
    IN  Loop(Turn, 0, Len(common.items), <<>>)

\* key in d, and d[key], for a mapping held as a sequence of pairs; a list or a
\* text of the files holds no dialect name
HasKey(d, key) == IsDict(d) /\ \E k \in DOMAIN d.items : d.items[k][1] = key
ValueOf(d, key) == d.items[CHOOSE k \in DOMAIN d.items : d.items[k][1] = key][2]

\* a lookup that takes the rules of every key that exists, one after the other
Mutant_compile_dbms_rules_Union(rules, src_db) ==
    LET dbms == Get(rules, "dbms_specific_rules", Dict(<<>>))
        db_keys == <<src_db, Lower(src_db)>>
        Turn(k, compiled) ==
            IF HasKey(dbms, db_keys[k + 1]) /\ IsList(ValueOf(dbms, db_keys[k + 1]))
            THEN CompileList(ValueOf(dbms, db_keys[k + 1]).items, "dbms_specific",
                             db_keys[k + 1], compiled)
            ELSE compiled
    IN  Loop(Turn, 0, Len(db_keys), <<>>)

\* _compile_dbms_rules: the rules under the first of the keys source_db,
\* source_db.lower(), source_db.upper() that the mapping holds
_compile_dbms_rules(rules, src_db) ==
    LET dbms == Get(rules, "dbms_specific_rules", Dict(<<>>))
        db_keys == <<src_db, Lower(src_db), Upper(src_db)>>
        found == { k \in DOMAIN db_keys : HasKey(dbms, db_keys[k]) }
        db_key == db_keys[CHOOSE k \in found : \A j \in found : k <= j]
    IN  IF found = {} THEN <<>>
        ELSE IF IsList(ValueOf(dbms, db_key))
        THEN CompileList(ValueOf(dbms, db_key).items, "dbms_specific", db_key, <<>>)
        ELSE <<>>

(***************************************************************************)
(* _calculate_metrics: table count.  A finditer is a scan from left to     *)
(* right whose matches do not overlap.                                     *)
(***************************************************************************)
SQL_KEYWORDS ==
    { <<"L","A","T","E","R","A","L">>, <<"N","A","T","U","R","A","L">>, <<"O","U","T","E","R">>, <<"I","N","N","E","R">>, <<"L","E","F","T">>, <<"R","I","G","H","T">>, <<"F","U","L","L">>, <<"C","R","O","S","S">>, <<"S","E","L","E","C","T">>,
      <<"W","H","E","R","E">>, <<"A","N","D">>, <<"O","R">>, <<"O","N">>, <<"A","S">>, <<"S","E","T">>, <<"V","A","L","U","E","S">>, <<"I","N","T","O">> }

\* the positions where pattern.finditer(s) takes a match, match_end[i] being the
\* end of the match that starts at position i, or -1
MatchStarts(s, match_end) ==
    LET Turn(i, st) ==
            IF i < st.next \/ match_end[i] = -1 THEN st
            ELSE [starts |-> st.starts \cup {i}, next |-> match_end[i]]
    IN  Loop(Turn, 0, Len(s), [starts |-> {}, next |-> 0]).starts

\* the first position >= p that holds no character of [\w.]
SkipName(s, p) ==
    Let(First(LAMBDA i : ~(IsWord(At(s, i)) \/ At(s, i) = "."), p, Len(s) - 1),
        LAMBDA q : IF q # -1 THEN q ELSE Max(p, Len(s)))

\* the end of a match of [\w.]+(?:\s+\w+)? at position p, or -1
FromItemEnd(s, p) ==
    Let(SkipName(s, p),
        LAMBDA n :
            IF n = p THEN -1
            ELSE Let(SkipSpaces(s, n), LAMBDA a :
                 Let(SkipWord(s, a), LAMBDA w : IF a > n /\ w > a THEN w ELSE n)))

\* the end of the longest match of (?:\s*,\s*[\w.]+(?:\s+\w+)?)* at position e
RECURSIVE FromListEnd(_, _)
FromListEnd(s, e) ==
    Let(SkipSpaces(s, e), LAMBDA c :
    Let(IF c < Len(s) /\ At(s, c) = "," THEN FromItemEnd(s, SkipSpaces(s, c + 1)) ELSE -1,
        LAMBDA item : IF item # -1 THEN FromListEnd(s, item) ELSE e))

\* the start of group 1 of a from_pattern match at position p, or -1:
\* \bFROM\s+(?!\s*\() and a first [\w.]
FromGroupStart(s, su, p) ==
    IF WordBoundary(s, p) /\ HasAt(su, p, <<"F","R","O","M">>)
    THEN Let(SkipSpaces(s, p + 4),
             LAMBDA sp : IF /\ sp > p + 4
                            /\ sp < Len(s)
                            /\ At(s, sp) # "("
                            /\ FromItemEnd(s, sp) # -1
                         THEN sp ELSE -1)
    ELSE -1

\* s.split(c), as the set of its parts
SplitParts(s, c) ==
    LET cuts == {-1} \cup { k \in 0..(Len(s) - 1) : At(s, k) = c } \cup {Len(s)}
    IN  { Slice(s, a + 1, CHOOSE b \in cuts : b > a /\ \A x \in cuts : x > a => b <= x) :
              a \in cuts \ {Len(s)} }

\* part.split()[0] of a part that holds a character that is no whitespace
FirstToken(part) ==
    Let(SkipSpaces(part, 0), LAMBDA a :
    Let(First(LAMBDA i : IsSpace(At(part, i)), a, Len(part) - 1),
        LAMBDA b : Slice(part, a, IF b # -1 THEN b ELSE Len(part))))

\* table_name.split('.')[-1] when '.' is in table_name, else table_name
LastSegment(table_name) ==
    LET dots == { k \in 0..(Len(table_name) - 1) : At(table_name, k) = "." }
    IN  IF dots = {} THEN table_name
        ELSE SliceFrom(table_name, (CHOOSE k \in dots : \A j \in dots : j <= k) + 1)

\* a naming that keeps the schema qualifier
Mutant_TableNames_Qualified(names) ==
    { Upper(n) : n \in names } \ SQL_KEYWORDS

\* what tables.add receives for the names found: the last dot-segment,
\* upper-cased, when it is no SQL keyword
TableNames(names) ==
    { Upper(LastSegment(n)) : n \in names } \ SQL_KEYWORDS

\* the names that the FROM pass finds
FromPassNames(sql) ==
    Let(Upper(sql), LAMBDA su :
    Let([p \in 0..(Len(sql) - 1) |-> FromGroupStart(sql, su, p)], LAMBDA group_start :
    Let([p \in 0..(Len(sql) - 1) |->
            IF group_start[p] = -1 THEN -1
            ELSE FromListEnd(sql, FromItemEnd(sql, group_start[p]))], LAMBDA match_end :
        LET from_clauses == { Slice(sql, group_start[p], match_end[p]) :
                                  p \in MatchStarts(sql, match_end) }
            parts == UNION { SplitParts(from_clause, ",") : from_clause \in from_clauses }
        IN  { FirstToken(part) : part \in { x \in parts : Strip(x) # <<>> } })))

\* the start of group 1 of a join_pattern match at position p, or -1:
\* \bJOIN\s+(?!LATERAL\b)(?!\s*\() and a first [\w.]
JoinGroupStart(s, su, p) ==
    IF WordBoundary(s, p) /\ HasAt(su, p, <<"J","O","I","N">>)
    THEN Let(SkipSpaces(s, p + 4),
             LAMBDA sp : IF /\ sp > p + 4
                            /\ ~(/\ HasAt(su, sp, <<"L","A","T","E","R","A","L">>)
                                 /\ WordBoundary(s, sp + 7))
                            /\ sp < Len(s)
                            /\ At(s, sp) # "("
                            /\ SkipName(s, sp) > sp
                         THEN sp ELSE -1)
    ELSE -1

\* the names that the JOIN pass finds
JoinPassNames(sql) ==
    Let(Upper(sql), LAMBDA su :
    Let([p \in 0..(Len(sql) - 1) |-> JoinGroupStart(sql, su, p)], LAMBDA group_start :
    Let([p \in 0..(Len(sql) - 1) |->
            IF group_start[p] = -1 THEN -1 ELSE SkipName(sql, group_start[p])],
        LAMBDA match_end :
            { Slice(sql, group_start[p], match_end[p]) : p \in MatchStarts(sql, match_end) })))

\* the names that re.findall(r'\bFROM\s+([\w.]+)', inner_sql, re.IGNORECASE) finds
InnerFromNames(inner_sql) ==
    Let(Upper(inner_sql), LAMBDA iu :
    Let([p \in 0..(Len(inner_sql) - 1) |->
            IF WordBoundary(inner_sql, p) /\ HasAt(iu, p, <<"F","R","O","M">>)
            THEN Let(SkipSpaces(inner_sql, p + 4),
                     LAMBDA sp : IF sp > p + 4 /\ SkipName(inner_sql, sp) > sp THEN sp ELSE -1)
            ELSE -1], LAMBDA group_start :
    Let([p \in 0..(Len(inner_sql) - 1) |->
            IF group_start[p] = -1 THEN -1 ELSE SkipName(inner_sql, group_start[p])],
        LAMBDA match_end :
            { Slice(inner_sql, group_start[p], match_end[p]) :
                  p \in MatchStarts(inner_sql, match_end) })))

\* the names that the LATERAL pass finds: \bLATERAL\s*\(([^)]+)\) and the FROM
\* names inside group 1
LateralPassNames(sql) ==
    Let(Upper(sql), LAMBDA su :
    \* open[p]: the position of the '(' of a match at p; close[p]: that of its ')'
    Let([p \in 0..(Len(sql) - 1) |->
            IF WordBoundary(sql, p) /\ HasAt(su, p, <<"L","A","T","E","R","A","L">>)
            THEN Let(SkipSpaces(sql, p + 7),
                     LAMBDA sp : IF sp < Len(sql) /\ At(sql, sp) = "(" THEN sp ELSE -1)
            ELSE -1], LAMBDA open :
    Let([p \in 0..(Len(sql) - 1) |->
            IF open[p] = -1 THEN -1
            ELSE Let(Find(sql, <<")">>, open[p] + 1),
                     LAMBDA q : IF q > open[p] + 1 THEN q ELSE -1)], LAMBDA close :
    Let([p \in 0..(Len(sql) - 1) |-> IF close[p] = -1 THEN -1 ELSE close[p] + 1],
        LAMBDA match_end :
            UNION { InnerFromNames(Slice(sql, open[p] + 1, close[p])) :
                        p \in MatchStarts(sql, match_end) }))))

\* metrics['table_count']
TableCount(sql) ==
    Cardinality(TableNames(FromPassNames(sql)) \cup TableNames(JoinPassNames(sql))
                \cup TableNames(LateralPassNames(sql)))

(***************************************************************************)
(* Structural engine: _calculate_metrics, _apply_metric_rules, score_query *)
(***************************************************************************)
_calculate_metrics(sql) ==
    [length |-> Len(sql),
     join_count |-> FindallCount(CompileKeyword(<<"J","O","I","N">>), sql),
     subquery_depth |-> SubqueryDepth(sql),
     table_count |-> TableCount(sql),
     select_column_count |-> SelectColumnCount(sql),
     where_condition_count |-> WhereConditionCount(sql)]

\* RuleMatch(rule_id, rule_name, weight, category, subcategory): match_count is 1
MetricMatch(rule_id, weight, category, subcategory) ==
    [rule_id |-> rule_id, weight |-> weight, category |-> category,
     subcategory |-> subcategory, match_count |-> 1]

LengthMatch(length) ==
    IF length < 200 THEN <<MetricMatch("c_len_short", 0, "query_metric", "length")>>
    ELSE IF length < 500 THEN <<MetricMatch("c_len_medium", 5, "query_metric", "length")>>
    ELSE IF length < 1000 THEN <<MetricMatch("c_len_long", 10, "query_metric", "length")>>
    ELSE IF length < 2000 THEN <<MetricMatch("c_len_very_long", 15, "query_metric", "length")>>
    ELSE <<MetricMatch("c_len_huge", 20, "query_metric", "length")>>

\* the join buckets with the edge between the third and the fourth moved
Mutant_JoinMatch_Edge(join_count) ==
    IF join_count = 0 THEN <<MetricMatch("c_join_0", 0, "structural", "join")>>
    ELSE IF join_count = 1 THEN <<MetricMatch("c_join_1", 5, "structural", "join")>>
    ELSE IF join_count < 3 THEN <<MetricMatch("c_join_2_3", 10, "structural", "join")>>
    ELSE IF join_count <= 5 THEN <<MetricMatch("c_join_4_5", 15, "structural", "join")>>
    ELSE <<MetricMatch("c_join_6plus", 20, "structural", "join")>>

JoinMatch(join_count) ==
    IF join_count = 0 THEN <<MetricMatch("c_join_0", 0, "structural", "join")>>
    ELSE IF join_count = 1 THEN <<MetricMatch("c_join_1", 5, "structural", "join")>>
    ELSE IF join_count <= 3 THEN <<MetricMatch("c_join_2_3", 10, "structural", "join")>>
    ELSE IF join_count <= 5 THEN <<MetricMatch("c_join_4_5", 15, "structural", "join")>>
    ELSE <<MetricMatch("c_join_6plus", 20, "structural", "join")>>

SubqueryMatch(subquery_depth) ==
    IF subquery_depth = 0 THEN <<MetricMatch("c_subq_0", 0, "structural", "subquery")>>
    ELSE IF subquery_depth = 1
    THEN <<MetricMatch("c_subq_depth_1", 10, "structural", "subquery")>>
    ELSE IF subquery_depth = 2
    THEN <<MetricMatch("c_subq_depth_2", 20, "structural", "subquery")>>
    ELSE <<MetricMatch("c_subq_depth_3plus", 30, "structural", "subquery")>>

TablesMatch(table_count) ==
    IF 3 <= table_count /\ table_count <= 5
    THEN <<MetricMatch("c_tables_3_5", 5, "query_metric", "tables")>>
    ELSE IF 6 <= table_count /\ table_count <= 10
    THEN <<MetricMatch("c_tables_6_10", 10, "query_metric", "tables")>>
    ELSE IF table_count >= 11
    THEN <<MetricMatch("c_tables_11plus", 15, "query_metric", "tables")>>
    ELSE <<>>

SelectMatch(col_count) ==
    IF col_count = -1 THEN <<MetricMatch("c_select_star", 5, "clause", "select")>>
    ELSE IF 6 <= col_count /\ col_count <= 10
    THEN <<MetricMatch("c_select_cols_6_10", 5, "clause", "select")>>
    ELSE IF 11 <= col_count /\ col_count <= 20
    THEN <<MetricMatch("c_select_cols_11_20", 10, "clause", "select")>>
    ELSE IF col_count >= 21
    THEN <<MetricMatch("c_select_cols_21plus", 15, "clause", "select")>>
    ELSE <<>>

WhereMatch(cond_count) ==
    IF 4 <= cond_count /\ cond_count <= 6
    THEN <<MetricMatch("c_where_cond_4_6", 5, "clause", "where")>>
    ELSE IF 7 <= cond_count /\ cond_count <= 10
    THEN <<MetricMatch("c_where_cond_7_10", 10, "clause", "where")>>
    ELSE IF cond_count >= 11
    THEN <<MetricMatch("c_where_cond_11plus", 15, "clause", "where")>>
    ELSE <<>>

_apply_metric_rules(metrics) ==
    LengthMatch(metrics.length) \o JoinMatch(metrics.join_count)
    \o SubqueryMatch(metrics.subquery_depth) \o TablesMatch(metrics.table_count)
    \o SelectMatch(metrics.select_column_count) \o WhereMatch(metrics.where_condition_count)

\* a scoring that passes over the rules that earlier queries have counted
Mutant_St_rule_matched_Once(rule, match_count, st) ==
    IF match_count > 0 /\ \A k \in DOMAIN st.rule_match_counts : st.rule_match_counts[k][1] # rule.id
    THEN [matched_rules |->
              Append(st.matched_rules,
                     [rule_id |-> rule.id, weight |-> rule.weight,
                      category |-> rule.category, subcategory |-> rule.subcategory,
                      match_count |-> match_count]),
          rule_match_counts |-> AddMatchCount(st.rule_match_counts, rule.id, match_count)]
    ELSE st

\* the body of the for loops over self.common_rules and self.dbms_rules past
\* the count, for the rule `rule` whose pattern has match_count matches
St_rule_matched(rule, match_count, st) ==
    IF match_count > 0
    THEN [matched_rules |->
              Append(st.matched_rules,
                     [rule_id |-> rule.id, weight |-> rule.weight,
                      category |-> rule.category, subcategory |-> rule.subcategory,
                      match_count |-> match_count]),
          rule_match_counts |-> AddMatchCount(st.rule_match_counts, rule.id, match_count)]
    ELSE st

\* one turn of the for loops over self.common_rules and self.dbms_rules
St_rule_turn(rule, preprocessed_sql, st) ==
    IF rule.compiled_pattern.kind = None THEN st
    ELSE Let(_count_pattern_matches(preprocessed_sql, rule.compiled_pattern),
             LAMBDA match_count : St_rule_matched(rule, match_count, st))

\* a loop that stores weight * match_count of the rule matched last under its
\* category instead of adding it
Mutant_CategoryScores_Overwrite(matched_rules) ==
    LET Turn(k, category_scores) ==
            [c \in DOMAIN category_scores \cup {matched_rules[k + 1].category} |->
                IF c = matched_rules[k + 1].category
                THEN matched_rules[k + 1].weight * matched_rules[k + 1].match_count
                ELSE Get(category_scores, c, 0)]
    IN  Loop(Turn, 0, Len(matched_rules), [c \in {} |-> 0])

\* the for loop that adds weight * match_count of every matched rule to
\* category_scores[category], a defaultdict(float)
CategoryScores(matched_rules) ==
    LET Turn(k, category_scores) ==
            [c \in DOMAIN category_scores \cup {matched_rules[k + 1].category} |->
                Get(category_scores, c, 0)
                + (IF c = matched_rules[k + 1].category
                   THEN matched_rules[k + 1].weight * matched_rules[k + 1].match_count
                   ELSE 0)]
    IN  Loop(Turn, 0, Len(matched_rules), [c \in {} |-> 0])

\* round(normalized_score, 2), from 1/200 point to hundredths: a float sum that
\* stands for an odd number of 1/200 may lie on either side of the tie
Round2(n200) ==
    IF n200 % 2 = 0 THEN {n200 \div 2} ELSE {n200 \div 2, n200 \div 2 + 1}

\* the for loop over `rules` (self.common_rules, then self.dbms_rules), from the
\* state st on
St_rule_loop(rules, preprocessed_sql, st) ==
    LET Turn(k, acc) == St_rule_turn(rules[k + 1], preprocessed_sql, acc)
    IN  Loop(Turn, 0, Len(rules), st)

\* the QueryScore built from the metrics and the state `end` that the loops over
\* the rules leave
St_query_score(end, metrics, sql, query_name) ==
    Let(CategoryScores(end.matched_rules),
        LAMBDA category_scores :
            Let(_calculate_normalized_score(category_scores),
                LAMBDA normalized_score :
                    [query_name |-> query_name,
                     sql |-> StoredSql(sql),
                     raw_score |-> RawScore(end.matched_rules),
                     normalized_score |-> normalized_score,
                     complexity_level |-> St_get_complexity_level(normalized_score, 200),
                     matched_rules |-> end.matched_rules,
                     category_scores |-> category_scores,
                     metrics |-> metrics]))

\* score_query past the preprocessing
St_score_preprocessed(common, dbms, counts, preprocessed_sql, sql, query_name) ==
    Let(_calculate_metrics(preprocessed_sql),
        LAMBDA metrics :
            Let(St_rule_loop(dbms, preprocessed_sql,
                             St_rule_loop(common, preprocessed_sql,
                                          [matched_rules |-> _apply_metric_rules(metrics),
                                           rule_match_counts |-> counts])),
                LAMBDA end : [score |-> St_query_score(end, metrics, sql, query_name),
                              rule_match_counts |-> end.rule_match_counts]))

\* score_query of the structural engine: the QueryScore it returns, but for the
\* rounding of normalized_score, which is held in 1/200 point here, and the
\* rule-match counters it leaves
St_score_query(common, dbms, counts, sql, query_name) ==
    Let(_preprocess_sql(sql),
        LAMBDA preprocessed_sql :
            St_score_preprocessed(common, dbms, counts, preprocessed_sql, sql, query_name))

(***************************************************************************)
(* Spec: an engine of either class, constructed over a rule file for a     *)
(* dialect, scores queries one after the other                             *)
(***************************************************************************)
\* the rule file of one keyword rule: JOIN, weight 10, every dialect, no grade
ConvRulesJoin ==
    [rules |-> Dict(<< <<"syntax", Dict(<< <<"join", List(<<
        [id |-> "r1", pattern |-> <<"J","O","I","N">>, weight |-> 10, detection_method |-> "keyword",
         applicable_db |-> <<<<"A","L","L">>>>] >>)>> >>)>> >>)]

\* a rule file with rules of every grade, rules that get no matcher (r3: a
\* pattern that does not compile, r4: no pattern, r5: an unknown detection
\* method), a rule for no dialect (r6), a rule without weight (r8), and
\* sections that are no mapping and no list
ConvRulesMixed ==
    [rules |-> Dict(<<
        <<"syntax", Dict(<<
            <<"join", List(<<
                [id |-> "r1", pattern |-> <<"J","O","I","N">>, weight |-> 10, detection_method |-> "keyword",
                 applicable_db |-> <<<<"A","L","L">>>>],
                [id |-> "r2", pattern |-> <<"s","e","l","e","c","t">>, weight |-> 3, conversion_grade |-> "A",
                 applicable_db |-> <<<<"O","R","A">>, <<"P","G">>>>] >>)>>,
            <<"broken", Text>> >>)>>,
        <<"functions", Dict(<<
            <<"misc", List(<<
                [id |-> "r3", pattern |-> <<"(">>, weight |-> 7, conversion_grade |-> "M",
                 detection_method |-> "regex", applicable_db |-> <<<<"A","L","L">>>>],
                [id |-> "r4", pattern |-> <<>>, weight |-> 5, detection_method |-> "keyword",
                 applicable_db |-> <<<<"A","L","L">>>>],
                [id |-> "r5", pattern |-> <<"F","R","O","M">>, weight |-> 9, detection_method |-> "metric",
                 applicable_db |-> <<<<"A","L","L">>>>],
                [id |-> "r6", pattern |-> <<"F","R","O","M">>, weight |-> 100,
                 detection_method |-> "keyword"],
                [id |-> "r7", pattern |-> <<"b">>, weight |-> 4, conversion_grade |-> "M",
                 detection_method |-> "keyword", applicable_db |-> <<<<"M","Y">>>>],
                [id |-> "r8", pattern |-> <<"o","n">>, conversion_grade |-> "P",
                 detection_method |-> "keyword", applicable_db |-> <<<<"A","L","L">>>>] >>)>> >>)>>,
        <<"note", Text>> >>)]

\* a rule file whose rules differ in applicable_db only: an empty list (a1), no
\* list (a2), ALL (a3), one dialect (a4), two dialects (a5), and lists that
\* hold the lower-case spellings of ALL and of a dialect (a6, a7)
ConvRulesDialects ==
    [rules |-> Dict(<< <<"syntax", Dict(<< <<"from", List(<<
        [id |-> "a1", pattern |-> <<"f","r","o","m">>, weight |-> 1, detection_method |-> "keyword",
         applicable_db |-> <<>>],
        [id |-> "a2", pattern |-> <<"f","r","o","m">>, weight |-> 1, detection_method |-> "keyword"],
        [id |-> "a3", pattern |-> <<"f","r","o","m">>, weight |-> 1, detection_method |-> "keyword",
         applicable_db |-> <<<<"A","L","L">>>>],
        [id |-> "a4", pattern |-> <<"f","r","o","m">>, weight |-> 1, detection_method |-> "keyword",
         applicable_db |-> <<<<"O","R","A">>>>],
        [id |-> "a5", pattern |-> <<"f","r","o","m">>, weight |-> 1, detection_method |-> "keyword",
         applicable_db |-> <<<<"P","G">>, <<"M","Y">>>>],
        [id |-> "a6", pattern |-> <<"f","r","o","m">>, weight |-> 1, detection_method |-> "keyword",
         applicable_db |-> <<<<"a","l","l">>>>],
        [id |-> "a7", pattern |-> <<"f","r","o","m">>, weight |-> 1, detection_method |-> "keyword",
         applicable_db |-> <<<<"o","r","a">>, <<"S","Q","L","I","T","E">>>>] >>)>> >>)>> >>)]

ConvRuleSets == {ConvRulesJoin, ConvRulesMixed, ConvRulesDialects}

\* a structural rule file: common rules under mapped and unmapped category
\* names, rules that get no matcher (s3, s5), and dialect sections under
\* several casings
StRulesMixed ==
    [common_rules |-> Dict(<<
        <<"structural_join", List(<<
            [id |-> "s1", pattern |-> <<"J","O","I","N">>, weight |-> 5, detection_method |-> "keyword"] >>)>>,
        <<"clause_where", List(<<
            [id |-> "s2", pattern |-> <<"w","h","e","r","e">>, weight |-> 2] >>)>>,
        <<"function_common", List(<<
            [id |-> "s3", pattern |-> <<"(">>, weight |-> 50] >>)>>,
        <<"my_checks", List(<<
            [id |-> "s4", pattern |-> <<"s","e","l","e","c","t">>, weight |-> 1, detection_method |-> "keyword"],
            [id |-> "s5", pattern |-> <<>>, weight |-> 9, detection_method |-> "keyword"] >>)>>,
        <<"version", Text>> >>),
     dbms_specific_rules |-> Dict(<<
        <<<<"O","R","A">>, List(<<
            [id |-> "d1", pattern |-> <<"f","r","o","m">>, weight |-> 3] >>)>>,
        <<<<"m","y">>, List(<<
            [id |-> "d2", pattern |-> <<"a">>, weight |-> 8, detection_method |-> "keyword"] >>)>>,
        <<<<"M","Y">>, List(<<
            [id |-> "d3", pattern |-> <<"b">>, weight |-> 6, detection_method |-> "keyword"] >>)>> >>)]

\* a structural rule file whose dialect sections differ in the casing of their
\* keys: ora only in lower case; MY with a value that is no list, beside my;
\* SQLITE beside sqlite, both lists
StRulesCasings ==
    [common_rules |-> Dict(<<
        <<"clause_select", List(<<
            [id |-> "c1", pattern |-> <<"s","e","l","e","c","t">>, weight |-> 1, detection_method |-> "keyword"] >>)>> >>),
     dbms_specific_rules |-> Dict(<<
        <<<<"o","r","a">>, List(<<
            [id |-> "e1", pattern |-> <<"f","r","o","m">>, weight |-> 2, detection_method |-> "keyword"] >>)>>,
        <<<<"m","y">>, List(<<
            [id |-> "e2", pattern |-> <<"f","r","o","m">>, weight |-> 3, detection_method |-> "keyword"] >>)>>,
        <<<<"M","Y">>, Text>>,
        <<<<"s","q","l","i","t","e">>, List(<<
            [id |-> "e3", pattern |-> <<"f","r","o","m">>, weight |-> 4, detection_method |-> "keyword"] >>)>>,
        <<<<"S","Q","L","I","T","E">>, List(<<
            [id |-> "e4", pattern |-> <<"f","r","o","m">>, weight |-> 5, detection_method |-> "keyword"],
            [id |-> "e5", pattern |-> <<"j","o","i","n">>, weight |-> 6, detection_method |-> "keyword"] >>)>> >>)]

StRuleSets == {StRulesMixed, StRulesCasings}

\* the source_db arguments tried
Dialects == {<<"o","r","a","c","l","e">>, <<"M","y","S","q","l">>, <<"s","q","l","i","t","e">>}

\* the queries scored
Queries ==
    {<<"S","E","L","E","C","T"," ","*"," ","F","R","O","M"," ","a"," ","J","O","I","N"," ","b"," ","O","N"," ","a",".","i","d","=","b",".","i","d">>,
     <<"s","e","l","e","c","t"," ","a"," ","f","r","o","m"," ","b"," ","j","o","i","n"," ","c"," ","j","o","i","n"," ","d">>,
     <<"S","E","L","E","C","T"," ","1">>,
     <<"<","i","f"," ","t","e","s","t","=","x",">","s","e","l","e","c","t"," "," ","a","<","/","i","f",">"," ","f","r","o","m"," ","t"," ","w","h","e","r","e"," ","i","d"," ","="," ","#","{","i","d","}">>,
     <<>>,
     <<"S","E","L","E","C","T"," ","a",","," ","(","S","E","L","E","C","T"," ","m","a","x","(","x",")"," ","F","R","O","M"," ","u",")"," ","F","R","O","M"," ","t","1",","," ","t","2"," ","J","O","I","N"," ","s",".","t","3"," ","O","N"," ","1"," ","W","H","E","R","E"," ","a","=","1"," ","A","N","D"," ","b","=","2"," ","A","N","D"," ","c","=","3"," ","O","R"," ","d","=","4">>}

\* no rule id is counted beyond this many matches
MaxRuleMatchCount == 3

\* SQLConversionScoringEngine(rules_path, db_name), the file holding `rules`
ConvInit(rules, db_name) ==
    /\ variant = "conversion"
    /\ source_db = _normalize_db_name(db_name)
    /\ compiled_patterns = _compile_patterns(rules, _normalize_db_name(db_name))
    /\ common_rules = <<>>
    /\ dbms_rules = <<>>
    /\ rule_match_counts = <<>>
    /\ last_score = <<>>

\* SQLStructuralScoringEngine(rules_path, db_name), the file holding `rules`
StInit(rules, db_name) ==
    /\ variant = "structural"
    /\ source_db = _normalize_db_name(db_name)
    /\ compiled_patterns = <<>>
    /\ common_rules = _compile_common_rules(rules)
    /\ dbms_rules = _compile_dbms_rules(rules, _normalize_db_name(db_name))
    /\ rule_match_counts = <<>>
    /\ last_score = <<>>

Init ==
    /\ call = NoCall
    /\ \E db_name \in Dialects :
           \/ \E rules \in ConvRuleSets : ConvInit(rules, db_name)
           \/ \E rules \in StRuleSets : StInit(rules, db_name)

\* the counters stay within the bound
WithinBound(counts) == \A k \in DOMAIN counts : counts[k][2] <= MaxRuleMatchCount

\* engine.score_query(sql) on a conversion engine
ConvScoreQuery ==
    /\ variant = "conversion"
    /\ \E sql \in Queries :
           \E r \in {Conv_score_query(compiled_patterns, rule_match_counts, sql, <<>>)} :
               /\ WithinBound(r.rule_match_counts)
               /\ rule_match_counts' = r.rule_match_counts
               /\ last_score' = <<r.score>>
    /\ call' = NoCall
    /\ UNCHANGED <<variant, source_db, compiled_patterns, common_rules, dbms_rules>>

\* engine.score_query(sql) on a structural engine
StScoreQuery ==
    /\ variant = "structural"
    /\ \E sql \in Queries :
           \E r \in {St_score_query(common_rules, dbms_rules, rule_match_counts, sql, <<>>)} :
               /\ WithinBound(r.rule_match_counts)
               /\ rule_match_counts' = r.rule_match_counts
               /\ \E rounded \in Round2(r.score.normalized_score) :
                      last_score' = <<[r.score EXCEPT !.normalized_score = rounded]>>
    /\ call' = NoCall
    /\ UNCHANGED <<variant, source_db, compiled_patterns, common_rules, dbms_rules>>

Next == ConvScoreQuery \/ StScoreQuery

Spec == Init /\ [][Next]_vars

(***************************************************************************)
(* C1, C2                                                                  *)
(***************************************************************************)
\* the sum of f over the set S
RECURSIVE SumOf(_, _)
SumOf(f, S) ==
    IF S = {} THEN 0
    ELSE LET x == CHOOSE y \in S : TRUE IN f[x] + SumOf(f, S \ {x})

\* the rules of the engine's catalog, in the order in which score_query goes
\* through them
Catalog == IF variant = "conversion" THEN compiled_patterns ELSE common_rules \o dbms_rules

\* C1: after every score_query of either engine, raw_score is the sum of
\* weight * match_count over the matches recorded in matched_rules.  Those
\* matches are the synthetic metric matches of the structural engine, each
\* counted once, and one match for every catalog rule that has a matcher and
\* matches the preprocessed text at least once, with the number of its matches;
\* a rule without matcher or with zero matches has no entry and adds nothing.
\* (The queries are no longer than SQL_LIMIT, so the stored sql is the query.)
C1_RawScoreIsSumOfMatches ==
    Len(last_score) = 1 =>
        LET q == last_score[1]
            matched == q.matched_rules
            text == _preprocess_sql(q.sql)
            count == [k \in DOMAIN Catalog |->
                         IF Catalog[k].compiled_pattern.kind = None THEN 0
                         ELSE FindallCount(Catalog[k].compiled_pattern, text)]
            hits == { k \in DOMAIN Catalog : count[k] > 0 }
            synthetic == IF variant = "structural" THEN _apply_metric_rules(q.metrics) ELSE <<>>
            n == Len(synthetic)
        IN  /\ q.raw_score =
                   SumOf([j \in DOMAIN matched |-> matched[j].weight * matched[j].match_count],
                         DOMAIN matched)
            /\ Len(matched) = n + Cardinality(hits)
            /\ \A j \in 1..n :
                   /\ matched[j].rule_id = synthetic[j].rule_id
                   /\ matched[j].weight = synthetic[j].weight
                   /\ matched[j].match_count = 1
            /\ { <<matched[j].rule_id, matched[j].weight, matched[j].match_count>> :
                     j \in (n + 1)..Len(matched) }
               = { <<Catalog[k].id, Catalog[k].weight, count[k]>> : k \in hits }
            /\ q.raw_score =
                   SumOf([k \in DOMAIN Catalog |-> Catalog[k].weight * count[k]], DOMAIN Catalog)
                   + SumOf([j \in DOMAIN synthetic |-> synthetic[j].weight], DOMAIN synthetic)

\* a structural score with a rule matched twice, a synthetic match of weight 10,
\* a catalog rule without matcher and a catalog rule with a matcher and no match
C1_Witness ==
    /\ variant = "structural"
    /\ Len(last_score) = 1
    /\ \E j \in DOMAIN last_score[1].matched_rules :
           /\ last_score[1].matched_rules[j].rule_id = "s1"
           /\ last_score[1].matched_rules[j].match_count = 2
    /\ \E j \in DOMAIN last_score[1].matched_rules :
           /\ last_score[1].matched_rules[j].rule_id = "c_join_2_3"
           /\ last_score[1].matched_rules[j].weight = 10
    /\ \E k \in DOMAIN Catalog : Catalog[k].compiled_pattern.kind = None
    /\ \E k \in DOMAIN Catalog :
           /\ Catalog[k].compiled_pattern.kind # None
           /\ \A j \in DOMAIN last_score[1].matched_rules :
                  last_score[1].matched_rules[j].rule_id # Catalog[k].id
    /\ dbms_rules = <<>>
    /\ last_score[1].raw_score = 26

\* the ids of the rules of a conversion rule file that declare no grade
UngradedRuleIds(rules) ==
    LET section == rules.rules.items
        lists == UNION { { section[c][2].items[s][2] :
                               s \in { s \in DOMAIN section[c][2].items :
                                           IsList(section[c][2].items[s][2]) } } :
                             c \in { c \in DOMAIN section : IsDict(section[c][2]) } }
    IN  UNION { { l.items[i].id :
                      i \in { i \in DOMAIN l.items : "conversion_grade" \notin DOMAIN l.items[i] } } :
                    l \in lists }

\* the coefficients of C2, in hundredths
C2_Coefficient == [A |-> 50, P |-> 100, M |-> 150]

C2_Query == <<"S","E","L","E","C","T"," ","*"," ","F","R","O","M"," ","a"," ","J","O","I","N"," ","b"," ","O","N"," ","a",".","i","d","=","b",".","i","d">>

\* C2: after every score_query of the conversion engine, weighted_score is the
\* sum over the matched rules of weight * match_count * coefficient, the
\* coefficient being 0.5 for grade A, 1.0 for P, 1.5 for M, and that of P for a
\* rule that declares no grade; with the single keyword rule JOIN of weight 10
\* for ALL, the query SELECT * FROM a JOIN b ON a.id=b.id has one match,
\* raw_score 10 and weighted_score 10.
C2_WeightedScore ==
    (variant = "conversion" /\ Len(last_score) = 1) =>
        LET q == last_score[1]
            matched == q.matched_rules
            ungraded == UNION { UngradedRuleIds(rules) : rules \in ConvRuleSets }
        IN  /\ q.weighted_score =
                   SumOf([j \in DOMAIN matched |->
                             matched[j].weight * matched[j].match_count
                             * (IF matched[j].rule_id \in ungraded THEN C2_Coefficient["P"]
                                ELSE C2_Coefficient[matched[j].conversion_grade])],
                         DOMAIN matched)
            /\ (compiled_patterns = _compile_patterns(ConvRulesJoin, source_db) /\ q.sql = C2_Query)
                   => /\ Len(matched) = 1
                      /\ matched[1].match_count = 1
                      /\ q.raw_score = 10
                      /\ q.weighted_score = 10 * 100

\* the query of C2 has been scored over the single JOIN rule
C2_Witness ==
    /\ variant = "conversion"
    /\ Len(last_score) = 1
    /\ compiled_patterns = _compile_patterns(ConvRulesJoin, source_db)
    /\ last_score[1].sql = C2_Query
    /\ last_score[1].weighted_score = 1000

(***************************************************************************)
(* C11                                                                     *)
(***************************************************************************)
\* the rules a conversion rule file lists: the entries of the lists that stand
\* under the categories of its rules section
ListedRules(rules) ==
    LET section == rules.rules.items
        lists == UNION { { section[c][2].items[s][2] :
                               s \in { s \in DOMAIN section[c][2].items :
                                           IsList(section[c][2].items[s][2]) } } :
                             c \in { c \in DOMAIN section : IsDict(section[c][2]) } }
    IN  UNION { { l.items[i] : i \in DOMAIN l.items } : l \in lists }

\* applicability as C11 words it
C11_Applicable(rule, token) ==
    /\ "applicable_db" \in DOMAIN rule
    /\ rule.applicable_db # <<>>
    /\ \/ \E k \in DOMAIN rule.applicable_db : rule.applicable_db[k] = <<"A","L","L">>
       \/ \E k \in DOMAIN rule.applicable_db : rule.applicable_db[k] = token

\* C11: in a conversion engine built over a rule file, a rule of the file is in
\* the compiled catalog if and only if it is applicable: it has a dialect list
\* that is not empty, and the list holds ALL or the engine's normalized
\* dialect token
C11_CatalogIsApplicableRules ==
    variant = "conversion" =>
        \A rules \in ConvRuleSets :
            compiled_patterns = _compile_patterns(rules, source_db) =>
                \A rule \in ListedRules(rules) :
                    (\E k \in DOMAIN compiled_patterns : compiled_patterns[k].id = rule.id)
                        <=> C11_Applicable(rule, source_db)

\* an engine for MY over the file of a1..a7: a3 (ALL) and a5 (MY in its list)
\* are in the catalog; the rules with an empty list, with no list, for another
\* dialect and with lower-case spellings are not
C11_Witness ==
    /\ variant = "conversion"
    /\ source_db = <<"M","Y">>
    /\ compiled_patterns = _compile_patterns(ConvRulesDialects, source_db)
    /\ Len(compiled_patterns) = 2
    /\ compiled_patterns[1].id = "a3"
    /\ compiled_patterns[2].id = "a5"

(***************************************************************************)
(* C12                                                                     *)
(***************************************************************************)
\* the keys of the dbms_specific_rules mapping of a rule file
DbmsKeys(rules) ==
    { rules.dbms_specific_rules.items[k][1] : k \in DOMAIN rules.dbms_specific_rules.items }

\* the value the rule file holds under the key of dbms_specific_rules
DbmsSection(rules, key) ==
    rules.dbms_specific_rules.items[
        CHOOSE k \in DOMAIN rules.dbms_specific_rules.items :
            rules.dbms_specific_rules.items[k][1] = key][2]

\* the first of exact token, lower-cased token, upper-cased token that is a key
\* of dbms_specific_rules, or the empty text when none is
C12_FirstKey(rules, token) ==
    IF token \in DbmsKeys(rules) THEN token
    ELSE IF Lower(token) \in DbmsKeys(rules) THEN Lower(token)
    ELSE IF Upper(token) \in DbmsKeys(rules) THEN Upper(token)
    ELSE <<>>

\* C12: the DBMS-specific rules of a structural engine are the rules of one
\* section, the one under the first existing key in the order exact token,
\* lower-cased token, upper-cased token, and of no other section; when that
\* section gives no rules (it is no list) there are no DBMS-specific rules,
\* whatever stands under the other casings
C12_FirstSectionOnly ==
    variant = "structural" =>
        \A rules \in StRuleSets :
            (/\ common_rules = _compile_common_rules(rules)
             /\ dbms_rules = _compile_dbms_rules(rules, source_db)) =>
                LET key == C12_FirstKey(rules, source_db)
                IN  IF key = <<>> THEN dbms_rules = <<>>
                    ELSE IF ~IsList(DbmsSection(rules, key)) THEN dbms_rules = <<>>
                    ELSE /\ Len(dbms_rules) = Len(DbmsSection(rules, key).items)
                         /\ \A k \in DOMAIN dbms_rules :
                                /\ dbms_rules[k].id = DbmsSection(rules, key).items[k].id
                                /\ dbms_rules[k].subcategory = key

\* an engine for MY over a file with sections MY and my: only the rule of the
\* section MY is in the catalog
C12_Witness ==
    /\ variant = "structural"
    /\ source_db = <<"M","Y">>
    /\ common_rules = _compile_common_rules(StRulesMixed)
    /\ {<<"M","Y">>, <<"m","y">>} \subseteq DbmsKeys(StRulesMixed)
    /\ Len(dbms_rules) = 1
    /\ dbms_rules[1].id = "d3"

(***************************************************************************)
(* C13                                                                     *)
(***************************************************************************)
\* the rule's pattern is one that re.compile rejects
Uncompilable(rule) ==
    rule.detection_method = "regex" /\ rule.pattern # <<>> /\ ~IsLiteralPattern(rule.pattern)

\* the rule's pattern is one that compiles
Compilable(rule) ==
    /\ rule.pattern # <<>>
    /\ \/ rule.detection_method = "keyword"
       \/ rule.detection_method = "regex" /\ IsLiteralPattern(rule.pattern)

\* the catalog rules but for those whose pattern re.compile rejects
WithoutUncompilable(rules) == SelectSeq(rules, LAMBDA rule : ~Uncompilable(rule))

\* the last QueryScore is what score_query gives over the catalog without the
\* rules whose pattern re.compile rejects
ScoredAsWithoutUncompilable ==
    IF variant = "conversion"
    THEN last_score[1] = Conv_score_query(WithoutUncompilable(compiled_patterns),
                                          <<>>, last_score[1].sql, <<>>).score
    ELSE LET r == St_score_query(WithoutUncompilable(common_rules),
                                 WithoutUncompilable(dbms_rules),
                                 <<>>, last_score[1].sql, <<>>)
         IN  \E rounded \in Round2(r.score.normalized_score) :
                 last_score[1] = [r.score EXCEPT !.normalized_score = rounded]

\* C13: a rule whose pattern does not compile is in the catalog with no
\* matcher, beside the other rules, which have their matchers; after every
\* score_query it has no entry in matched_rules and none in the rule-match
\* counters, and the QueryScore is the one the catalog without it gives
C13_UncompilableRuleIsInert ==
    \A k \in DOMAIN Catalog :
        Uncompilable(Catalog[k]) =>
            /\ Catalog[k].compiled_pattern = NonePattern
            /\ \A j \in DOMAIN Catalog :
                   Compilable(Catalog[j]) => Catalog[j].compiled_pattern.kind # None
            /\ \A c \in DOMAIN rule_match_counts : rule_match_counts[c][1] # Catalog[k].id
            /\ Len(last_score) = 1 =>
                   /\ \A m \in DOMAIN last_score[1].matched_rules :
                          last_score[1].matched_rules[m].rule_id # Catalog[k].id
                   /\ ScoredAsWithoutUncompilable

\* a query that holds the text of the uncompilable pattern '(' has been scored
\* by an engine whose catalog holds the rule with that pattern, and other
\* rules have matched
C13_Witness ==
    /\ Len(last_score) = 1
    /\ \E k \in DOMAIN Catalog : Uncompilable(Catalog[k]) /\ Catalog[k].pattern = <<"(">>
    /\ \E p \in DOMAIN last_score[1].sql : last_score[1].sql[p] = "("
    /\ \E c \in DOMAIN rule_match_counts : rule_match_counts[c][2] > 0

(***************************************************************************)
(* analyze_file and analyze_json_files.  A query record and a file record  *)
(* of the input JSON are records that hold the keys the document gives     *)
(* them; json_paths is held as the sequence of the documents that          *)
(* json.load reads from the paths.  round(x, 2) of a float that stands for *)
(* a value halfway between two hundredths may go either way, each round    *)
(* on its own: a method that rounds returns the set of the results that    *)
(* the ways of its ties give.                                              *)
(***************************************************************************)
\* round(num / den, 2) of a quotient of hundredths, den > 0
RoundDiv(num, den) ==
    IF 2 * (num % den) < den THEN {num \div den}
    ELSE IF 2 * (num % den) > den THEN {num \div den + 1}
    ELSE {num \div den, num \div den + 1}

\* query.get('name', query.get('type', 'unknown'))
QueryName(query) == Get(query, "name", Get(query, "type", "unknown"))

\* dist[level] += count on a defaultdict(int)
AddLevel(dist, level, count) ==
    [l \in DOMAIN dist \cup {level} |-> Get(dist, l, 0) + (IF l = level THEN count ELSE 0)]

\* a merge that overwrites the count of a level instead of adding to it
Mutant_MergeLevels_Overwrite(overall, complexity_distribution) ==
    [l \in DOMAIN overall \cup DOMAIN complexity_distribution |->
        IF l \in DOMAIN complexity_distribution THEN complexity_distribution[l]
        ELSE overall[l]]

\* for level, count in complexity_distribution.items(): overall[level] += count
MergeLevels(overall, complexity_distribution) ==
    [l \in DOMAIN overall \cup DOMAIN complexity_distribution |->
        Get(overall, l, 0) + Get(complexity_distribution, l, 0)]

\* sum(q.raw_score for q in query_scores)
TotalRaw(query_scores) ==
    LET Turn(k, sum) == sum + query_scores[k + 1].raw_score
    IN  Loop(Turn, 0, Len(query_scores), 0)

\* sum(q.weighted_score for q in query_scores), in hundredths
TotalWeighted(query_scores) ==
    LET Turn(k, sum) == sum + query_scores[k + 1].weighted_score
    IN  Loop(Turn, 0, Len(query_scores), 0)

\* sum(q.normalized_score for q in query_scores), in hundredths
TotalNormalized(query_scores) ==
    LET Turn(k, sum) == sum + query_scores[k + 1].normalized_score
    IN  Loop(Turn, 0, Len(query_scores), 0)

\* a loop body that scores a record whatever its sql
Mutant_Conv_analyze_query_NoSkip(compiled, query, st) ==
    Let(Conv_score_query(compiled, st.rule_match_counts, Get(query, "sql", <<>>),
                         QueryName(query)),
        LAMBDA r : [query_scores |-> Append(st.query_scores, r.score),
                    complexity_dist |-> AddLevel(st.complexity_dist, r.score.complexity_level, 1),
                    rule_match_counts |-> r.rule_match_counts])

\* conversion: one turn of the for loop of analyze_file, for the record `query`
Conv_analyze_query(compiled, query, st) ==
    IF Get(query, "sql", <<>>) = <<>> THEN st
    ELSE Let(Conv_score_query(compiled, st.rule_match_counts, query.sql, QueryName(query)),
             LAMBDA r : [query_scores |-> Append(st.query_scores, r.score),
                         complexity_dist |->
                             AddLevel(st.complexity_dist, r.score.complexity_level, 1),
                         rule_match_counts |-> r.rule_match_counts])

\* conversion: the FileScore built from the state `end` that the loop leaves,
\* with avg_score rounded to avg_score
Conv_file_score(file_data, end, total_weighted, avg_score) ==
    [file_name |-> Get(file_data, "file_name", ""),
     file_path |-> Get(file_data, "file_path", ""),
     query_count |-> Len(end.query_scores),
     total_raw_score |-> TotalRaw(end.query_scores),
     total_weighted_score |-> total_weighted,
     avg_score |-> avg_score,
     complexity_distribution |-> end.complexity_dist,
     queries |-> end.query_scores]

\* an analyze_file that rounds the quotient whatever the number of scores: for
\* no scores the division faults and no FileScore is returned
Mutant_Conv_file_scores_NoGuard(file_data, end) ==
    { Conv_file_score(file_data, end, TotalWeighted(end.query_scores), avg_score) :
          avg_score \in IF Len(end.query_scores) > 0
                        THEN RoundDiv(TotalWeighted(end.query_scores), Len(end.query_scores))
                        ELSE {} }

\* conversion: the FileScores that the roundings of avg_score may give
Conv_file_scores(file_data, end) ==
    Let(TotalWeighted(end.query_scores),
        LAMBDA total_weighted :
            { Conv_file_score(file_data, end, total_weighted, avg_score) :
                  avg_score \in IF Len(end.query_scores) > 0
                                THEN RoundDiv(total_weighted, Len(end.query_scores))
                                ELSE {0} })

\* analyze_file of the conversion engine: the FileScores it may return and the
\* rule-match counters it leaves
Conv_analyze_file(compiled, counts, file_data) ==
    LET Turn(k, st) == Conv_analyze_query(compiled, Get(file_data, "queries", <<>>)[k + 1], st)
    IN  Let(Loop(Turn, 0, Len(Get(file_data, "queries", <<>>)),
                 [query_scores |-> <<>>, complexity_dist |-> <<>>,
                  rule_match_counts |-> counts]),
            LAMBDA end : [file_scores |-> Conv_file_scores(file_data, end),
                          rule_match_counts |-> end.rule_match_counts])

\* structural: one turn of the for loop of analyze_file, for the record
\* `query`; st.outcomes are the lists and distributions that the roundings of
\* the scores so far may have given
St_analyze_query(common, dbms, query, st) ==
    IF Get(query, "sql", <<>>) = <<>> THEN st
    ELSE Let(St_score_query(common, dbms, st.rule_match_counts, query.sql, QueryName(query)),
             LAMBDA r :
                 [outcomes |->
                      { [query_scores |->
                             Append(o.query_scores,
                                    [r.score EXCEPT !.normalized_score = rounded]),
                         complexity_dist |->
                             AddLevel(o.complexity_dist, r.score.complexity_level, 1)] :
                            o \in st.outcomes, rounded \in Round2(r.score.normalized_score) },
                  rule_match_counts |-> r.rule_match_counts])

\* structural: the FileScore built from the lists `end` that the loop leaves,
\* with the averages rounded to avg_score and avg_normalized_score, in
\* hundredths
St_file_score(file_data, end, total_raw, avg_score, avg_normalized_score) ==
    [file_name |-> Get(file_data, "file_name", ""),
     file_path |-> Get(file_data, "file_path", ""),
     query_count |-> Len(end.query_scores),
     total_raw_score |-> total_raw,
     avg_score |-> avg_score,
     avg_normalized_score |-> avg_normalized_score,
     complexity_distribution |-> end.complexity_dist,
     queries |-> end.query_scores]

\* structural: the FileScores that the roundings of the averages may give
St_file_scores(file_data, end) ==
    Let(TotalRaw(end.query_scores),
        LAMBDA total_raw :
            IF Len(end.query_scores) > 0
            THEN { St_file_score(file_data, end, total_raw, avg_score, avg_normalized_score) :
                       avg_score \in RoundDiv(100 * total_raw, Len(end.query_scores)),
                       avg_normalized_score \in
                           RoundDiv(TotalNormalized(end.query_scores), Len(end.query_scores)) }
            ELSE { St_file_score(file_data, end, total_raw, 0, 0) })

\* analyze_file of the structural engine: the FileScores it may return and the
\* rule-match counters it leaves
St_analyze_file(common, dbms, counts, file_data) ==
    LET Turn(k, st) ==
            St_analyze_query(common, dbms, Get(file_data, "queries", <<>>)[k + 1], st)
    IN  Let(Loop(Turn, 0, Len(Get(file_data, "queries", <<>>)),
                 [outcomes |-> {[query_scores |-> <<>>, complexity_dist |-> <<>>]},
                  rule_match_counts |-> counts]),
            LAMBDA end : [file_scores |->
                              UNION { St_file_scores(file_data, o) : o \in end.outcomes },
                          rule_match_counts |-> end.rule_match_counts])

\* the number of rule ids that rule_statistics keeps
RULE_STATISTICS_LIMIT == 20

\* sorted(items, key=lambda x: x[1], reverse=True): a stable sort, so that items
\* of one count stay in the order in which the dictionary holds them
SortedByCount(items) ==
    LET Turn(k, sorted) ==
            Let(Cardinality({ j \in DOMAIN sorted : sorted[j][2] >= items[k + 1][2] }),
                LAMBDA ahead : Slice(sorted, 0, ahead) \o <<items[k + 1]>>
                               \o SliceFrom(sorted, ahead))
    IN  Loop(Turn, 0, Len(items), <<>>)

\* dict(sorted(self.rule_match_counts.items(), ...)[:20]), as its items
RuleStatistics(counts) == Slice(SortedByCount(counts), 0, RULE_STATISTICS_LIMIT)

\* _calculate_grade_distribution: the for loops over the queries of one file
GradeDistributionOfFile(queries, grade_dist) ==
    LET Turn(k, dist) ==
            [grade \in DOMAIN dist |-> dist[grade] + Get(queries[k + 1].grade_summary, grade, 0)]
    IN  Loop(Turn, 0, Len(queries), grade_dist)

_calculate_grade_distribution(files) ==
    LET Turn(k, dist) == GradeDistributionOfFile(files[k + 1].queries, dist)
    IN  Loop(Turn, 0, Len(files), [A |-> 0, P |-> 0, M |-> 0])

\* conversion: the body of the for loop over the files of one document past
\* analyze_file, which returned file_score
Conv_add_file(o, file_score) ==
    [all_files |-> Append(o.all_files, file_score),
     total_queries |-> o.total_queries + file_score.query_count,
     total_score |-> o.total_score + file_score.total_weighted_score,
     overall_complexity_dist |->
         MergeLevels(o.overall_complexity_dist, file_score.complexity_distribution)]

\* conversion: the body of the for loop over the files of one document;
\* st.outcomes are the totals that the roundings so far may have given
Conv_analyze_json_file(compiled, file_data, st) ==
    Let(Conv_analyze_file(compiled, st.rule_match_counts, file_data),
        LAMBDA r :
            [outcomes |-> { Conv_add_file(o, file_score) :
                                o \in st.outcomes, file_score \in r.file_scores },
             rule_match_counts |-> r.rule_match_counts])

\* conversion: the body of the for loop over json_paths, for the document `data`
Conv_analyze_json_document(compiled, data, st) ==
    LET Turn(k, acc) == Conv_analyze_json_file(compiled, Get(data, "files", <<>>)[k + 1], acc)
    IN  Loop(Turn, 0, Len(Get(data, "files", <<>>)), st)

\* conversion: the AnalysisResult built from the totals `end` and the counters
\* that the loops leave, with the average rounded to average_score; metadata
\* without the date, the rule file and the paths
Conv_analysis_result(src_db, end, counts, average_score) ==
    [metadata |-> [source_db |-> src_db,
                   total_files_analyzed |-> Len(end.all_files),
                   total_queries_analyzed |-> end.total_queries],
     summary |->
         [total_queries |-> end.total_queries,
          total_weighted_score |-> end.total_score,
          average_score |-> average_score,
          overall_complexity_level |->
              IF end.total_queries > 0
              THEN Conv_get_complexity_level(end.total_score, 100 * end.total_queries)
              ELSE Conv_get_complexity_level(0, 100),
          complexity_distribution |-> end.overall_complexity_dist,
          grade_distribution |-> _calculate_grade_distribution(end.all_files)],
     files |-> end.all_files,
     rule_statistics |-> RuleStatistics(counts)]

\* conversion: the AnalysisResults that the roundings of the average may give
Conv_analysis_results(src_db, end, counts) ==
    { Conv_analysis_result(src_db, end, counts, average_score) :
          average_score \in IF end.total_queries > 0
                            THEN RoundDiv(end.total_score, end.total_queries)
                            ELSE {0} }

\* analyze_json_files of the conversion engine over the documents json_docs:
\* the AnalysisResults it may return and the rule-match counters it leaves
Conv_analyze_json_files(compiled, src_db, counts, json_docs) ==
    LET Turn(k, st) == Conv_analyze_json_document(compiled, json_docs[k + 1], st)
    IN  Let(Loop(Turn, 0, Len(json_docs),
                 [outcomes |-> {[all_files |-> <<>>, total_queries |-> 0, total_score |-> 0,
                                 overall_complexity_dist |-> <<>>]},
                  rule_match_counts |-> counts]),
            LAMBDA end :
                [results |-> UNION { Conv_analysis_results(src_db, o, end.rule_match_counts) :
                                         o \in end.outcomes },
                 rule_match_counts |-> end.rule_match_counts])

\* structural: the body of the for loop over the files of one document past
\* analyze_file, which returned file_score; total_normalized in hundredths
St_add_file(o, file_score) ==
    [all_files |-> Append(o.all_files, file_score),
     total_queries |-> o.total_queries + file_score.query_count,
     total_score |-> o.total_score + file_score.total_raw_score,
     total_normalized |->
         o.total_normalized + file_score.avg_normalized_score * file_score.query_count,
     overall_complexity_dist |->
         MergeLevels(o.overall_complexity_dist, file_score.complexity_distribution)]

\* structural: the body of the for loop over the files of one document
St_analyze_json_file(common, dbms, file_data, st) ==
    Let(St_analyze_file(common, dbms, st.rule_match_counts, file_data),
        LAMBDA r :
            [outcomes |-> { St_add_file(o, file_score) :
                                o \in st.outcomes, file_score \in r.file_scores },
             rule_match_counts |-> r.rule_match_counts])

\* structural: the body of the for loop over json_paths, for the document `data`
St_analyze_json_document(common, dbms, data, st) ==
    LET Turn(k, acc) ==
            St_analyze_json_file(common, dbms, Get(data, "files", <<>>)[k + 1], acc)
    IN  Loop(Turn, 0, Len(Get(data, "files", <<>>)), st)

\* structural: the AnalysisResult built from the totals `end` and the counters
\* that the loops leave, with the averages rounded to average_raw_score and
\* average_normalized_score, in hundredths
St_analysis_result(src_db, end, counts, average_raw_score, average_normalized_score) ==
    [metadata |-> [source_db |-> src_db,
                   total_files_analyzed |-> Len(end.all_files),
                   total_queries_analyzed |-> end.total_queries],
     summary |->
         [total_queries |-> end.total_queries,
          total_raw_score |-> end.total_score,
          average_raw_score |-> average_raw_score,
          average_normalized_score |-> average_normalized_score,
          overall_complexity_level |->
              IF end.total_queries > 0
              THEN St_get_complexity_level(end.total_normalized, 100 * end.total_queries)
              ELSE St_get_complexity_level(0, 100),
          complexity_distribution |-> end.overall_complexity_dist],
     files |-> end.all_files,
     rule_statistics |-> RuleStatistics(counts)]

\* structural: the AnalysisResults that the roundings of the averages may give
St_analysis_results(src_db, end, counts) ==
    IF end.total_queries > 0
    THEN { St_analysis_result(src_db, end, counts, average_raw_score,
                              average_normalized_score) :
               average_raw_score \in RoundDiv(100 * end.total_score, end.total_queries),
               average_normalized_score \in RoundDiv(end.total_normalized, end.total_queries) }
    ELSE { St_analysis_result(src_db, end, counts, 0, 0) }

\* analyze_json_files of the structural engine over the documents json_docs:
\* the AnalysisResults it may return and the rule-match counters it leaves
St_analyze_json_files(common, dbms, src_db, counts, json_docs) ==
    LET Turn(k, st) == St_analyze_json_document(common, dbms, json_docs[k + 1], st)
    IN  Let(Loop(Turn, 0, Len(json_docs),
                 [outcomes |-> {[all_files |-> <<>>, total_queries |-> 0, total_score |-> 0,
                                 total_normalized |-> 0, overall_complexity_dist |-> <<>>]},
                  rule_match_counts |-> counts]),
            LAMBDA end :
                [results |-> UNION { St_analysis_results(src_db, o, end.rule_match_counts) :
                                         o \in end.outcomes },
                 rule_match_counts |-> end.rule_match_counts])

(***************************************************************************)
(* SpecAnalyze: an engine of either class scores queries, files and        *)
(* corpora of documents one after the other                                *)
(***************************************************************************)
\* a conversion rule file of twenty-one keyword rules, one more than
\* rule_statistics keeps
ConvRulesWords ==
    [rules |-> Dict(<< <<"syntax", Dict(<< <<"word", List(<<
        [id |-> "w01", pattern |-> <<"e">>, weight |-> 1, detection_method |-> "keyword",
         applicable_db |-> <<<<"A","L","L">>>>],
        [id |-> "w02", pattern |-> <<"f">>, weight |-> 1, detection_method |-> "keyword",
         applicable_db |-> <<<<"A","L","L">>>>],
        [id |-> "w03", pattern |-> <<"g">>, weight |-> 1, detection_method |-> "keyword",
         applicable_db |-> <<<<"A","L","L">>>>],
        [id |-> "w04", pattern |-> <<"h">>, weight |-> 1, detection_method |-> "keyword",
         applicable_db |-> <<<<"A","L","L">>>>],
        [id |-> "w05", pattern |-> <<"i">>, weight |-> 1, detection_method |-> "keyword",
         applicable_db |-> <<<<"A","L","L">>>>],
        [id |-> "w06", pattern |-> <<"j">>, weight |-> 1, detection_method |-> "keyword",
         applicable_db |-> <<<<"A","L","L">>>>],
        [id |-> "w07", pattern |-> <<"k">>, weight |-> 1, detection_method |-> "keyword",
         applicable_db |-> <<<<"A","L","L">>>>],
        [id |-> "w08", pattern |-> <<"l">>, weight |-> 1, detection_method |-> "keyword",
         applicable_db |-> <<<<"A","L","L">>>>],
        [id |-> "w09", pattern |-> <<"m">>, weight |-> 1, detection_method |-> "keyword",
         applicable_db |-> <<<<"A","L","L">>>>],
        [id |-> "w10", pattern |-> <<"n">>, weight |-> 1, detection_method |-> "keyword",
         applicable_db |-> <<<<"A","L","L">>>>],
        [id |-> "w11", pattern |-> <<"o">>, weight |-> 1, detection_method |-> "keyword",
         applicable_db |-> <<<<"A","L","L">>>>],
        [id |-> "w12", pattern |-> <<"p">>, weight |-> 1, detection_method |-> "keyword",
         applicable_db |-> <<<<"A","L","L">>>>],
        [id |-> "w13", pattern |-> <<"q">>, weight |-> 1, detection_method |-> "keyword",
         applicable_db |-> <<<<"A","L","L">>>>],
        [id |-> "w14", pattern |-> <<"r">>, weight |-> 1, detection_method |-> "keyword",
         applicable_db |-> <<<<"A","L","L">>>>],
        [id |-> "w15", pattern |-> <<"v">>, weight |-> 1, detection_method |-> "keyword",
         applicable_db |-> <<<<"A","L","L">>>>],
        [id |-> "w16", pattern |-> <<"w">>, weight |-> 1, detection_method |-> "keyword",
         applicable_db |-> <<<<"A","L","L">>>>],
        [id |-> "w17", pattern |-> <<"y">>, weight |-> 1, detection_method |-> "keyword",
         applicable_db |-> <<<<"A","L","L">>>>],
        [id |-> "w18", pattern |-> <<"z">>, weight |-> 1, detection_method |-> "keyword",
         applicable_db |-> <<<<"A","L","L">>>>],
        [id |-> "w19", pattern |-> <<"5">>, weight |-> 1, detection_method |-> "keyword",
         applicable_db |-> <<<<"A","L","L">>>>],
        [id |-> "w20", pattern |-> <<"6">>, weight |-> 1, detection_method |-> "keyword",
         applicable_db |-> <<<<"A","L","L">>>>],
        [id |-> "w21", pattern |-> <<"7">>, weight |-> 1, detection_method |-> "keyword",
         applicable_db |-> <<<<"A","L","L">>>>]
 >>)>> >>)>> >>)]

\* the query records of the documents: with a name, with a type only, with
\* neither, without sql, with an empty sql, and two over the words of
\* ConvRulesWords, each word three times
QueryJoin == [name |-> "join", sql |-> <<"S","E","L","E","C","T"," ","*"," ","F","R","O","M"," ","a"," ","J","O","I","N"," ","b"," ","O","N"," ","a",".","i","d","=","b",".","i","d">>]
QueryJoins == [type |-> "select", sql |-> <<"s","e","l","e","c","t"," ","a"," ","f","r","o","m"," ","b"," ","j","o","i","n"," ","c"," ","j","o","i","n"," ","d">>]
QueryPlain == [sql |-> <<"S","E","L","E","C","T"," ","1">>]
QueryNoSql == [name |-> "nosql"]
QueryEmptySql == [name |-> "empty", sql |-> <<>>]
QueryWords20 ==
    [name |-> "words",
     sql |-> <<"e"," ","e"," ","e"," ","f"," ","f"," ","f"," ","g"," ","g"," ","g"," ","h"," ","h"," ","h"," ","i"," ","i"," ","i"," ","j"," ","j"," ","j"," ","k"," ","k"," ","k"," ","l"," ","l"," ","l"," ","m"," ","m"," ","m"," ","n"," ","n"," ","n"," ","o"," ","o"," ","o"," ","p"," ","p"," ","p"," ","q"," ","q"," ","q"," ","r"," ","r"," ","r"," ","v"," ","v"," ","v"," ","w"," ","w"," ","w"," ","y"," ","y"," ","y"," ","z"," ","z"," ","z"," ","5"," ","5"," ","5"," ","6"," ","6"," ","6">>]
QueryWord21 == [name |-> "word", sql |-> <<"7"," ","7"," ","7">>]

\* the file records of the documents
FileMixed ==
    [file_name |-> "mixed.xml", file_path |-> "/m/mixed.xml",
     queries |-> <<QueryJoin, QueryNoSql, QueryEmptySql, QueryJoins>>]
FilePlain == [file_name |-> "plain.xml", queries |-> <<QueryPlain>>]
FileSkipped == [file_name |-> "skipped.xml", queries |-> <<QueryNoSql, QueryEmptySql>>]
FileEmpty == [file_name |-> "empty.xml", queries |-> <<>>]
FileNoQueries == [file_name |-> "bare.xml"]
FileWords == [file_name |-> "words.xml", queries |-> <<QueryWords20, QueryWord21>>]
FileWordsReversed == [file_name |-> "words.xml", queries |-> <<QueryWord21, QueryWords20>>]

FileDatas == {FileMixed, FilePlain, FileSkipped, FileEmpty, FileNoQueries}

\* the corpora analysed, each the sequence of the documents of its paths
Corpora ==
    { <<>>,
      <<[files |-> <<>>]>>,
      <<[version |-> 1]>>,
      <<[files |-> <<FileSkipped, FileEmpty>>], [files |-> <<FileNoQueries>>]>>,
      <<[files |-> <<FilePlain, FileMixed>>]>>,
      <<[files |-> <<FileMixed>>], [files |-> <<FileSkipped, FilePlain>>]>>,
      <<[files |-> <<FileWords>>]>>,
      <<[files |-> <<FileWordsReversed>>]>> }

AnalyzeInit ==
    /\ call = NoCall
    /\ \/ \E rules \in {ConvRulesJoin, ConvRulesWords} : ConvInit(rules, <<"o","r","a","c","l","e">>)
       \/ StInit(StRulesCasings, <<"o","r","a","c","l","e">>)

\* an analyze_file or analyze_json_files call that has returned ret: its
\* argument and the counters it started from
Analyzed(fn, arg, counts, ret) ==
    [fn |-> fn, arg |-> arg, done |-> TRUE, ret |-> ret, counts_before |-> counts]

\* engine.analyze_file(file_data) on a conversion engine
ConvAnalyzeFile ==
    /\ variant = "conversion"
    /\ \E file_data \in FileDatas :
           \E r \in {Conv_analyze_file(compiled_patterns, rule_match_counts, file_data)} :
               /\ WithinBound(r.rule_match_counts)
               /\ rule_match_counts' = r.rule_match_counts
               /\ \E file_score \in r.file_scores :
                      call' = Analyzed("analyze_file", file_data, rule_match_counts, file_score)
    /\ last_score' = <<>>
    /\ UNCHANGED <<variant, source_db, compiled_patterns, common_rules, dbms_rules>>

\* engine.analyze_file(file_data) on a structural engine
StAnalyzeFile ==
    /\ variant = "structural"
    /\ \E file_data \in FileDatas :
           \E r \in {St_analyze_file(common_rules, dbms_rules, rule_match_counts, file_data)} :
               /\ WithinBound(r.rule_match_counts)
               /\ rule_match_counts' = r.rule_match_counts
               /\ \E file_score \in r.file_scores :
                      call' = Analyzed("analyze_file", file_data, rule_match_counts, file_score)
    /\ last_score' = <<>>
    /\ UNCHANGED <<variant, source_db, compiled_patterns, common_rules, dbms_rules>>

\* engine.analyze_json_files(json_paths) on a conversion engine
ConvAnalyzeJsonFiles ==
    /\ variant = "conversion"
    /\ \E json_docs \in Corpora :
           \E r \in {Conv_analyze_json_files(compiled_patterns, source_db, rule_match_counts,
                                             json_docs)} :
               /\ WithinBound(r.rule_match_counts)
               /\ rule_match_counts' = r.rule_match_counts
               /\ \E result \in r.results :
                      call' = Analyzed("analyze_json_files", json_docs, rule_match_counts,
                                       result)
    /\ last_score' = <<>>
    /\ UNCHANGED <<variant, source_db, compiled_patterns, common_rules, dbms_rules>>

\* engine.analyze_json_files(json_paths) on a structural engine
StAnalyzeJsonFiles ==
    /\ variant = "structural"
    /\ \E json_docs \in Corpora :
           \E r \in {St_analyze_json_files(common_rules, dbms_rules, source_db,
                                           rule_match_counts, json_docs)} :
               /\ WithinBound(r.rule_match_counts)
               /\ rule_match_counts' = r.rule_match_counts
               /\ \E result \in r.results :
                      call' = Analyzed("analyze_json_files", json_docs, rule_match_counts,
                                       result)
    /\ last_score' = <<>>
    /\ UNCHANGED <<variant, source_db, compiled_patterns, common_rules, dbms_rules>>

AnalyzeNext ==
    \/ ConvScoreQuery
    \/ StScoreQuery
    \/ ConvAnalyzeFile
    \/ StAnalyzeFile
    \/ ConvAnalyzeJsonFiles
    \/ StAnalyzeJsonFiles

SpecAnalyze == AnalyzeInit /\ [][AnalyzeNext]_vars

(***************************************************************************)
(* C14                                                                     *)
(***************************************************************************)
\* the query records of a file that have an sql text
Scoreable(file_data) ==
    SelectSeq(Get(file_data, "queries", <<>>), LAMBDA query : Get(query, "sql", <<>>) # <<>>)

\* the file without its query records that have no sql text
WithoutSkipped(file_data) ==
    IF "queries" \in DOMAIN file_data
    THEN [file_data EXCEPT !.queries = Scoreable(file_data)]
    ELSE file_data

\* analyze_file of the engine's class on file_data, from the counters `counts`
AnalyzeFileFrom(counts, file_data) ==
    IF variant = "conversion"
    THEN Conv_analyze_file(compiled_patterns, counts, file_data)
    ELSE St_analyze_file(common_rules, dbms_rules, counts, file_data)

\* C14: analyze_file skips the query records whose sql is missing or empty.
\* The FileScore has one QueryScore for every other record, in the records'
\* order and under their names; query_count and the counts of the complexity
\* distribution count those records only; and the FileScore and the rule-match
\* counters are the ones that the file without the skipped records gives.
C14_SkipsQueriesWithoutSql ==
    IsReturned("analyze_file") =>
        LET scoreable == Scoreable(call.arg)
            kept == AnalyzeFileFrom(call.counts_before, WithoutSkipped(call.arg))
        IN  /\ call.ret.query_count = Len(scoreable)
            /\ Len(call.ret.queries) = Len(scoreable)
            /\ \A k \in DOMAIN scoreable :
                   /\ call.ret.queries[k].query_name = QueryName(scoreable[k])
                   /\ call.ret.queries[k].sql = StoredSql(scoreable[k].sql)
            /\ SumOf(call.ret.complexity_distribution, DOMAIN call.ret.complexity_distribution)
               = Len(scoreable)
            /\ call.ret \in kept.file_scores
            /\ rule_match_counts = kept.rule_match_counts

\* analyze_file has returned for a file of four records, one without sql and
\* one with an empty sql, and has scored the two others
C14_Witness ==
    /\ IsReturned("analyze_file")
    /\ "queries" \in DOMAIN call.arg
    /\ Len(call.arg.queries) = 4
    /\ \E k \in DOMAIN call.arg.queries : "sql" \notin DOMAIN call.arg.queries[k]
    /\ \E k \in DOMAIN call.arg.queries :
           "sql" \in DOMAIN call.arg.queries[k] /\ call.arg.queries[k].sql = <<>>
    /\ call.ret.query_count = 2
    /\ rule_match_counts # call.counts_before

(***************************************************************************)
(* C15                                                                     *)
(***************************************************************************)
\* analyze_json_files of the engine's class on json_docs, from the counters
\* `counts`
AnalyzeJsonFilesFrom(counts, json_docs) ==
    IF variant = "conversion"
    THEN Conv_analyze_json_files(compiled_patterns, source_db, counts, json_docs)
    ELSE St_analyze_json_files(common_rules, dbms_rules, source_db, counts, json_docs)

\* no file of the documents has a query record with an sql text
NothingToScore(json_docs) ==
    \A d \in DOMAIN json_docs :
        \A f \in DOMAIN Get(json_docs[d], "files", <<>>) :
            Scoreable(json_docs[d].files[f]) = <<>>

\* the label of the lowest band of the engine's class
LowestLevel ==
    IF variant = "conversion" THEN Conv_COMPLEXITY_LEVELS[1].level
    ELSE St_COMPLEXITY_LEVELS[1].level

\* C15: with no query to score, analyze_file and analyze_json_files return (no
\* division faults): the FileScore has query_count 0 and every total and
\* average 0; the summary has total_queries 0, every total and average 0, no
\* distribution count, and the label of the lowest band as its overall level.
C15_ZeroQueriesScoreZero ==
    /\ \A file_data \in FileDatas :
           Scoreable(file_data) = <<>>
               => AnalyzeFileFrom(rule_match_counts, file_data).file_scores # {}
    /\ \A json_docs \in Corpora :
           NothingToScore(json_docs)
               => AnalyzeJsonFilesFrom(rule_match_counts, json_docs).results # {}
    /\ IsReturned("analyze_file") /\ Scoreable(call.arg) = <<>> =>
           /\ call.ret.query_count = 0
           /\ call.ret.queries = <<>>
           /\ call.ret.total_raw_score = 0
           /\ call.ret.avg_score = 0
           /\ variant = "conversion" => call.ret.total_weighted_score = 0
           /\ variant = "structural" => call.ret.avg_normalized_score = 0
           /\ DOMAIN call.ret.complexity_distribution = {}
    /\ IsReturned("analyze_json_files") /\ NothingToScore(call.arg) =>
           /\ call.ret.summary.total_queries = 0
           /\ call.ret.metadata.total_queries_analyzed = 0
           /\ call.ret.summary.overall_complexity_level = LowestLevel
           /\ DOMAIN call.ret.summary.complexity_distribution = {}
           /\ variant = "conversion" =>
                  /\ call.ret.summary.total_weighted_score = 0
                  /\ call.ret.summary.average_score = 0
                  /\ call.ret.summary.grade_distribution = [A |-> 0, P |-> 0, M |-> 0]
           /\ variant = "structural" =>
                  /\ call.ret.summary.total_raw_score = 0
                  /\ call.ret.summary.average_raw_score = 0
                  /\ call.ret.summary.average_normalized_score = 0
           /\ \A f \in DOMAIN call.ret.files :
                  call.ret.files[f].query_count = 0 /\ call.ret.files[f].avg_score = 0

\* analyze_json_files has returned for two documents of three files, none with
\* a query to score, on an engine that has scored queries before
C15_Witness ==
    /\ IsReturned("analyze_json_files")
    /\ Len(call.arg) = 2
    /\ call.ret.metadata.total_files_analyzed = 3
    /\ call.ret.summary.total_queries = 0
    /\ rule_match_counts # <<>>

(***************************************************************************)
(* SpecStored: the sql text that score_query stores in its QueryScore, for *)
(* texts of every length up to MaxSqlLength                                *)
(***************************************************************************)
MaxSqlLength == 520

\* the text that the texts tried repeat
SqlPad == <<"S","E","L","E","C","T"," ","a"," ","F","R","O","M"," ","t"," ","W","H","E","R","E"," ","b"," ","="," ","1"," ","O","R"," ">>

\* the text of n characters
SqlOfLength(n) == [k \in 1..n |-> SqlPad[((k - 1) % Len(SqlPad)) + 1]]

InitStored ==
    /\ EngineIdle
    /\ \E n \in 0..MaxSqlLength : call = Pending("StoredSql", SqlOfLength(n))

StoreSql ==
    /\ IsPending("StoredSql")
    /\ call' = Returned(call, StoredSql(call.arg))
    /\ UNCHANGED engine_vars

NextStored == StoreSql

SpecStored == InitStored /\ [][NextStored]_vars

(***************************************************************************)
(* C16                                                                     *)
(***************************************************************************)
\* C16 as claimed: for an sql of any length, the sql text stored in the
\* QueryScore is at most 500 characters long.
C16_Claimed ==
    IsReturned("StoredSql") => Len(call.ret) <= 500

\* C16: the sql text stored in the QueryScore is the sql itself when that has
\* at most 500 characters, and otherwise its first 500 characters followed by
\* the mark '...': 503 characters.
C16_StoredSql ==
    IsReturned("StoredSql") =>
        IF Len(call.arg) <= 500 THEN call.ret = call.arg
        ELSE /\ Len(call.ret) = 503
             /\ SubSeq(call.ret, 1, 500) = SubSeq(call.arg, 1, 500)
             /\ SubSeq(call.ret, 501, 503) = <<".",".",".">>

\* an sql of 501 characters has been stored as 503
C16_Witness ==
    /\ IsReturned("StoredSql")
    /\ Len(call.arg) = 501
    /\ Len(call.ret) = 503

(***************************************************************************)
(* SpecBuild: the construction of an engine of either class over a rule    *)
(* file of any shape.  The root of a file is a record of its top-level     *)
(* keys when the file is a mapping, and a List or a Text otherwise.        *)
(***************************************************************************)
\* isinstance(self.rules, dict)
IsMappingRoot(rules) == "type" \notin DOMAIN rules

\* the exception that the constructor of the conversion engine raises over the
\* file `rules`, or None: self.rules.get of a root that is no mapping and
\* rules_section.items() of a section that is no mapping raise AttributeError
Conv_build_error(rules) ==
    IF ~IsMappingRoot(rules) THEN "AttributeError"
    ELSE IF ~IsDict(Get(rules, "rules", Dict(<<>>))) THEN "AttributeError"
    ELSE None

\* the exception that the constructor of the structural engine raises over the
\* file `rules`, or None: self.rules.get of a root that is no mapping and
\* common_rules.items() of a section that is no mapping raise AttributeError
St_build_error(rules) ==
    IF ~IsMappingRoot(rules) THEN "AttributeError"
    ELSE IF ~IsDict(Get(rules, "common_rules", Dict(<<>>))) THEN "AttributeError"
    ELSE None

\* one keyword rule for every dialect
BuildRule ==
    [id |-> "b1", pattern |-> <<"J","O","I","N">>, weight |-> 10, detection_method |-> "keyword",
     applicable_db |-> <<<<"A","L","L">>>>]

\* conversion rule files: of the expected shape, with a root that is no
\* mapping, without the rules section, with a rules section that is no mapping,
\* with categories that are no mapping and with subcategories that are no list
ConvBuildFiles ==
    << ConvRulesJoin, ConvRulesMixed, ConvRulesDialects,
      [rules |-> Dict(<<>>)],
      List(<<>>),
      Text,
      [version |-> Text],
      [rules |-> List(<<BuildRule>>)],
      [rules |-> Text],
      [rules |-> Dict(<< <<"syntax", Text>> >>)],
      [rules |-> Dict(<< <<"syntax", List(<<BuildRule>>)>> >>)],
      [rules |-> Dict(<< <<"syntax", Dict(<< <<"join", Text>> >>)>> >>)],
      [rules |-> Dict(<< <<"syntax", Dict(<< <<"join", Dict(<<>>)>>,
                                             <<"from", List(<<BuildRule>>)>> >>)>> >>)] >>

\* structural rule files: of the expected shape, with a root that is no
\* mapping, without one or both sections, with sections that are no mapping
\* and with categories that are no list
StBuildFiles ==
    << StRulesMixed, StRulesCasings,
      [common_rules |-> Dict(<< <<"clause_select", List(<<BuildRule>>)>> >>),
       dbms_specific_rules |-> Dict(<< <<<<"O","R","A">>, List(<<BuildRule>>)>> >>)],
      List(<<>>),
      Text,
      [version |-> Text],
      [common_rules |-> Dict(<< <<"clause_select", List(<<BuildRule>>)>> >>)],
      [dbms_specific_rules |-> Dict(<< <<<<"O","R","A">>, List(<<BuildRule>>)>> >>)],
      [common_rules |-> List(<<BuildRule>>), dbms_specific_rules |-> Dict(<<>>)],
      [common_rules |-> Text, dbms_specific_rules |-> Dict(<<>>)],
      [common_rules |-> Dict(<<>>), dbms_specific_rules |-> List(<<BuildRule>>)],
      [common_rules |-> Dict(<<>>), dbms_specific_rules |-> Text],
      [common_rules |-> Dict(<< <<"clause_select", Dict(<<>>)>>,
                                <<"clause_where", List(<<BuildRule>>)>> >>),
       dbms_specific_rules |-> Dict(<<>>)],
      [common_rules |-> Dict(<<>>),
       dbms_specific_rules |-> Dict(<< <<<<"O","R","A">>, Dict(<<>>)>> >>)] >>

InitBuild ==
    /\ EngineIdle
    /\ \E db_name \in Dialects :
           \/ \E k \in DOMAIN ConvBuildFiles :
                  call = Pending("SQLConversionScoringEngine",
                                 [rules |-> ConvBuildFiles[k], db_name |-> db_name])
           \/ \E k \in DOMAIN StBuildFiles :
                  call = Pending("SQLStructuralScoringEngine",
                                 [rules |-> StBuildFiles[k], db_name |-> db_name])

\* SQLConversionScoringEngine(rules_path, db_name), the file holding call.arg.rules:
\* the constructor raises and leaves no engine, or returns the engine
ConvBuild ==
    /\ IsPending("SQLConversionScoringEngine")
    /\ IF Conv_build_error(call.arg.rules) # None
       THEN /\ call' = Returned(call, Conv_build_error(call.arg.rules))
            /\ UNCHANGED engine_vars
       ELSE /\ call' = Returned(call, "engine")
            /\ variant' = "conversion"
            /\ source_db' = _normalize_db_name(call.arg.db_name)
            /\ compiled_patterns' =
                   _compile_patterns(call.arg.rules, _normalize_db_name(call.arg.db_name))
            /\ rule_match_counts' = <<>>
            /\ UNCHANGED <<common_rules, dbms_rules, last_score>>

\* SQLStructuralScoringEngine(rules_path, db_name), the file holding call.arg.rules
StBuild ==
    /\ IsPending("SQLStructuralScoringEngine")
    /\ IF St_build_error(call.arg.rules) # None
       THEN /\ call' = Returned(call, St_build_error(call.arg.rules))
            /\ UNCHANGED engine_vars
       ELSE /\ call' = Returned(call, "engine")
            /\ variant' = "structural"
            /\ source_db' = _normalize_db_name(call.arg.db_name)
            /\ common_rules' = _compile_common_rules(call.arg.rules)
            /\ dbms_rules' =
                   _compile_dbms_rules(call.arg.rules, _normalize_db_name(call.arg.db_name))
            /\ rule_match_counts' = <<>>
            /\ UNCHANGED <<compiled_patterns, last_score>>

NextBuild == ConvBuild \/ StBuild

SpecBuild == InitBuild /\ [][NextBuild]_vars

(***************************************************************************)
(* C17: a rule file that is not the expected nested mapping.               *)
(***************************************************************************)
\* every value of the mapping d is a list
IsDictOfLists(d) == IsDict(d) /\ \A k \in DOMAIN d.items : IsList(d.items[k][2])

\* the conversion file is a mapping whose rules section is a mapping of
\* categories, each a mapping of lists
ConvExpectedShape(rules) ==
    /\ IsMappingRoot(rules)
    /\ "rules" \in DOMAIN rules
    /\ IsDict(rules.rules)
    /\ \A k \in DOMAIN rules.rules.items : IsDictOfLists(rules.rules.items[k][2])

\* the structural file is a mapping whose two sections are mappings of lists
StExpectedShape(rules) ==
    /\ IsMappingRoot(rules)
    /\ "common_rules" \in DOMAIN rules
    /\ IsDictOfLists(rules.common_rules)
    /\ "dbms_specific_rules" \in DOMAIN rules
    /\ IsDictOfLists(rules.dbms_specific_rules)

\* the latest call built an engine over a file that is not of the expected shape
BuiltOverMalformed ==
    \/ IsReturned("SQLConversionScoringEngine") /\ ~ConvExpectedShape(call.arg.rules)
    \/ IsReturned("SQLStructuralScoringEngine") /\ ~StExpectedShape(call.arg.rules)

\* C17: building an engine over a rule file that is not the expected nested
\* mapping fails: the constructor raises and no engine, with an empty or a
\* partial catalog, comes out of it.
C17_MalformedRuleSetFails ==
    BuiltOverMalformed => call.ret # "engine" /\ variant = None

\* the constructions over a malformed file that return an engine
C17_SilentCatalog ==
    BuiltOverMalformed /\ call.ret = "engine"

(***************************************************************************)
(* C18: the orderings of the documents, of the files of a document and of  *)
(* the queries of a file.                                                  *)
(***************************************************************************)
\* the sequences that hold the elements of s in any order
Orderings(s) ==
    { [k \in DOMAIN s |-> s[p[k]]] : p \in Permutations(DOMAIN s) }

\* the sequences whose k-th element is one of choices[k]
RECURSIVE SeqsOf(_)
SeqsOf(choices) ==
    IF choices = <<>> THEN {<<>>}
    ELSE { <<h>> \o t : h \in {Head(choices)[1]} \cup Head(choices)[2],
                        t \in SeqsOf(Tail(choices)) }

\* the file with its queries in any order
FileOrderings(file_data) ==
    IF "queries" \in DOMAIN file_data
    THEN { [file_data EXCEPT !.queries = q] : q \in Orderings(file_data.queries) }
    ELSE {file_data}

\* the document with its files, and their queries, in any order
DocOrderings(data) ==
    IF "files" \in DOMAIN data
    THEN UNION { { [data EXCEPT !.files = files] :
                       files \in SeqsOf([k \in DOMAIN o |->
                                            <<o[k], FileOrderings(o[k])>>]) } :
                 o \in Orderings(data.files) }
    ELSE {data}

\* the documents, their files and their queries in any order
CorpusOrderings(json_docs) ==
    UNION { SeqsOf([k \in DOMAIN o |-> <<o[k], DocOrderings(o[k])>>]) :
                o \in Orderings(json_docs) }

\* the corpus-level part of an AnalysisResult: the counts of the metadata, the
\* summary, and the rule statistics as a set of entries
CorpusLevel(result) ==
    [metadata |-> result.metadata,
     summary |-> result.summary,
     rule_statistics |-> { result.rule_statistics[k] : k \in DOMAIN result.rule_statistics }]

\* the corpus-level results that analyze_json_files may give over json_docs on
\* the engine with the rule-match counters counts
CorpusLevels(counts, json_docs) ==
    { CorpusLevel(result) : result \in AnalyzeJsonFilesFrom(counts, json_docs).results }

\* C18: the corpus-level results of analyze_json_files do not depend on the
\* order of the input: the same documents, files and queries in any other order
\* give the same summary (totals, counts, averages, distributions) and the same
\* set of top-20 rule statistics.
C18_OrderIndependent ==
    IsReturned("analyze_json_files") =>
        \A other \in CorpusOrderings(call.arg) :
            CorpusLevels(call.counts_before, other) = CorpusLevels(call.counts_before, call.arg)

\* the summary alone is the same in every order
C18_SummaryOrderIndependent ==
    IsReturned("analyze_json_files") =>
        \A other \in CorpusOrderings(call.arg) :
            { c.summary : c \in CorpusLevels(call.counts_before, other) }
                = { c.summary : c \in CorpusLevels(call.counts_before, call.arg) }

(***************************************************************************)
(* SpecMetric: _apply_metric_rules on the metrics of a query, for every    *)
(* join count up to MaxJoinCount                                           *)
(***************************************************************************)
MaxJoinCount == 12
MaxSubqueryDepth == 3

\* a length of every length bucket, and some counts of tables, of columns and
\* of conditions that go with it
OtherMetrics ==
    { [length |-> 40, table_count |-> 1, select_column_count |-> 1,
       where_condition_count |-> 0],
      [length |-> 700, table_count |-> 7, select_column_count |-> 12,
       where_condition_count |-> 4] }

InitMetric ==
    /\ EngineIdle
    /\ \E join_count \in 0..MaxJoinCount, subquery_depth \in 0..MaxSubqueryDepth,
          other \in OtherMetrics :
           call = Pending("_apply_metric_rules",
                          [length |-> other.length,
                           join_count |-> join_count,
                           subquery_depth |-> subquery_depth,
                           table_count |-> other.table_count,
                           select_column_count |-> other.select_column_count,
                           where_condition_count |-> other.where_condition_count])

ApplyMetricRules ==
    /\ IsPending("_apply_metric_rules")
    /\ call' = Returned(call, _apply_metric_rules(call.arg))
    /\ UNCHANGED engine_vars

NextMetric == ApplyMetricRules

SpecMetric == InitMetric /\ [][NextMetric]_vars

\* the matches of the join subcategory among matched_rules
JoinMatchesOf(matched_rules) ==
    SelectSeq(matched_rules, LAMBDA m : m.category = "structural" /\ m.subcategory = "join")

\* the weight that the claim gives to join_count
ClaimedJoinWeight(join_count) ==
    CASE join_count = 0 -> 0
      [] join_count = 1 -> 5
      [] join_count \in {2, 3} -> 10
      [] join_count \in {4, 5} -> 15
      [] join_count >= 6 -> 20

\* C19: _apply_metric_rules emits exactly one join match for every join count;
\* its weight is 0 for no join, 5 for one, 10 for two or three, 15 for four or
\* five and 20 for six or more, and no smaller join count gets a greater weight.
C19_JoinBuckets ==
    IsReturned("_apply_metric_rules") =>
        LET joins == JoinMatchesOf(call.ret)
        IN  /\ Len(joins) = 1
            /\ joins[1].weight = ClaimedJoinWeight(call.arg.join_count)
            /\ joins[1].match_count = 1
            /\ \A fewer \in 0..call.arg.join_count :
                   LET less == JoinMatchesOf(
                                   _apply_metric_rules([call.arg EXCEPT !.join_count = fewer]))
                   IN  Len(less) = 1 /\ less[1].weight <= joins[1].weight

C19_Witness ==
    /\ IsReturned("_apply_metric_rules")
    /\ call.arg.join_count = 3
    /\ call.arg.subquery_depth = 2
    /\ JoinMatchesOf(call.ret)[1].rule_id = "c_join_2_3"
    /\ JoinMatchesOf(call.ret)[1].weight = 10

(***************************************************************************)
(* C20: the rule catalog past construction, and scores past earlier scores *)
(***************************************************************************)
\* the QueryScores that score_query(sql) may return on the engine as it was
\* constructed, with no match counted
FreshScores(sql) ==
    IF variant = "conversion"
    THEN { Conv_score_query(compiled_patterns, <<>>, sql, <<>>).score }
    ELSE Let(St_score_query(common_rules, dbms_rules, <<>>, sql, <<>>).score,
             LAMBDA score : { [score EXCEPT !.normalized_score = rounded] :
                                  rounded \in Round2(score.normalized_score) })

\* what the latest call returned is what the engine as it was constructed
\* returns: the QueryScore of score_query, the FileScore of analyze_file with
\* its QueryScores, and the FileScores of analyze_json_files
ScoredAsFresh ==
    /\ last_score # <<>> => last_score[1] \in FreshScores(last_score[1].sql)
    /\ IsReturned("analyze_file") => call.ret \in AnalyzeFileFrom(<<>>, call.arg).file_scores
    /\ IsReturned("analyze_json_files") =>
           call.ret.files \in { r.files : r \in AnalyzeJsonFilesFrom(<<>>, call.arg).results }

\* a call leaves the class, the dialect and the compiled catalog as they were
CatalogUnchanged ==
    /\ variant' = variant
    /\ source_db' = source_db
    /\ compiled_patterns' = compiled_patterns
    /\ common_rules' = common_rules
    /\ dbms_rules' = dbms_rules

\* C20: no call of score_query, analyze_file or analyze_json_files changes the
\* compiled rule catalog (its rules, their order, fields and matchers) or any
\* engine state but the rule-match counters, and the QueryScore returned for an
\* SQL text is the one that the engine returns with no query scored before.
C20_CatalogReadOnly == [][CatalogUnchanged]_vars /\ []ScoredAsFresh

\* a query scored on an engine that has counted more matches of one of the
\* query's rules than the query has
C20_Witness ==
    /\ last_score # <<>>
    /\ \E m \in DOMAIN last_score[1].matched_rules :
           \E c \in DOMAIN rule_match_counts :
               /\ rule_match_counts[c][1] = last_score[1].matched_rules[m].rule_id
               /\ rule_match_counts[c][2] > last_score[1].matched_rules[m].match_count

(***************************************************************************)
(* C21: the rule statistics of analyze_json_files                          *)
(***************************************************************************)
\* the QueryScores of all FileScores of files, in their order
QueryScoresOf(files) ==
    LET Turn(k, all) == all \o files[k + 1].queries
    IN  Loop(Turn, 0, Len(files), <<>>)

\* the rule ids of the matches of the QueryScores query_scores
MatchedRuleIds(query_scores) ==
    UNION { { query_scores[q].matched_rules[m].rule_id :
                  m \in DOMAIN query_scores[q].matched_rules } :
            q \in DOMAIN query_scores }

\* the total match_count of rule_id over the matches of query_scores
TotalMatchCount(query_scores, rule_id) ==
    LET at == UNION { { <<q, m>> : m \in { n \in DOMAIN query_scores[q].matched_rules :
                                             query_scores[q].matched_rules[n].rule_id = rule_id } } :
                      q \in DOMAIN query_scores }
    IN  SumOf([p \in at |-> query_scores[p[1]].matched_rules[p[2]].match_count], at)

\* the rule ids of the synthetic matches of _apply_metric_rules
SyntheticRuleIds ==
    {"c_len_short", "c_len_medium", "c_len_long", "c_len_very_long", "c_len_huge",
     "c_join_0", "c_join_1", "c_join_2_3", "c_join_4_5", "c_join_6plus",
     "c_subq_0", "c_subq_depth_1", "c_subq_depth_2", "c_subq_depth_3plus",
     "c_tables_3_5", "c_tables_6_10", "c_tables_11plus",
     "c_select_star", "c_select_cols_6_10", "c_select_cols_11_20", "c_select_cols_21plus",
     "c_where_cond_4_6", "c_where_cond_7_10", "c_where_cond_11plus"}

\* the count that the counters hold for rule_id, 0 when they hold none
CountOf(counts, rule_id) ==
    IF \E k \in DOMAIN counts : counts[k][1] = rule_id
    THEN counts[CHOOSE k \in DOMAIN counts : counts[k][1] = rule_id][2]
    ELSE 0

\* statistics holds min(20, |ids|) entries of distinct ids in non-increasing
\* order of count, each with the count total[id], and leaves out no id of a
\* greater count than one it holds
IsTopOf(statistics, ids, total) ==
    /\ Len(statistics) = Min(RULE_STATISTICS_LIMIT, Cardinality(ids))
    /\ \A j, k \in DOMAIN statistics : j < k =>
           statistics[j][2] >= statistics[k][2] /\ statistics[j][1] # statistics[k][1]
    /\ \A k \in DOMAIN statistics :
           statistics[k][1] \in ids /\ statistics[k][2] = total[statistics[k][1]]
    /\ \A id \in ids :
           (\A k \in DOMAIN statistics : statistics[k][1] # id) =>
               \A k \in DOMAIN statistics : total[id] <= statistics[k][2]

\* C21: on an engine that has scored nothing before, the rule_statistics of
\* analyze_json_files hold min(20, number of distinct matched rule ids) entries
\* in non-increasing order of count; the count of an entry is the total
\* match_count of its rule id over the matches of all scored queries, and no
\* rule id left out has a greater count than one that is included.
C21_RuleStatistics ==
    IsReturned("analyze_json_files") /\ call.counts_before = <<>> =>
        LET query_scores == QueryScoresOf(call.ret.files)
            ids == MatchedRuleIds(query_scores)
        IN  IsTopOf(call.ret.rule_statistics, ids,
                    [id \in ids |-> TotalMatchCount(query_scores, id)])

\* the same over the matches of the rules of the rule file alone, which the
\* engine counts, and on an engine with any counters: the count of an entry is
\* the count before the call plus the total match_count of the call
C21_CountedRuleStatistics ==
    IsReturned("analyze_json_files") =>
        LET query_scores == QueryScoresOf(call.ret.files)
            ids == { rule_match_counts[k][1] : k \in DOMAIN rule_match_counts }
        IN  /\ \A id \in MatchedRuleIds(query_scores) :
                   id \in ids \/ id \in SyntheticRuleIds
            /\ IsTopOf(call.ret.rule_statistics, ids,
                       [id \in ids |-> CountOf(call.counts_before, id)
                                       + TotalMatchCount(query_scores, id)])

(***************************************************************************)
(* C22: the roll-ups of FileScores and of the corpus summary               *)
(***************************************************************************)
\* the FileScore counts its QueryScores, its distribution counts each of them
\* under its level, and its total_raw_score is the sum of their raw_score
FileRollsUp(file_score) ==
    /\ file_score.query_count = Len(file_score.queries)
    /\ SumOf(file_score.complexity_distribution, DOMAIN file_score.complexity_distribution)
           = file_score.query_count
    /\ \A level \in DOMAIN file_score.complexity_distribution :
           file_score.complexity_distribution[level]
               = Cardinality({ q \in DOMAIN file_score.queries :
                                   file_score.queries[q].complexity_level = level })
    /\ file_score.total_raw_score
           = SumOf([q \in DOMAIN file_score.queries |-> file_score.queries[q].raw_score],
                   DOMAIN file_score.queries)

\* the summary counts the queries of all files, and its distribution is the
\* sum, label by label, of the distributions of the files
SummaryRollsUp(result) ==
    LET files == result.files
        labels == UNION { DOMAIN files[f].complexity_distribution : f \in DOMAIN files }
    IN  /\ result.summary.total_queries
               = SumOf([f \in DOMAIN files |-> files[f].query_count], DOMAIN files)
        /\ DOMAIN result.summary.complexity_distribution = labels
        /\ \A label \in labels :
               result.summary.complexity_distribution[label]
                   = SumOf([f \in DOMAIN files |->
                               Get(files[f].complexity_distribution, label, 0)],
                           DOMAIN files)

\* C22: after any sequence of calls, each FileScore has query_count equal to the
\* number of its QueryScores, a complexity distribution whose counts sum to
\* query_count, and total_raw_score equal to the sum of its queries' raw_score;
\* the summary has total_queries equal to the sum of the files' query_count and
\* a complexity distribution equal to the per-label sum of the files'.
C22_RollUpsAdditive ==
    /\ IsReturned("analyze_file") => FileRollsUp(call.ret)
    /\ IsReturned("analyze_json_files") =>
           /\ \A f \in DOMAIN call.ret.files : FileRollsUp(call.ret.files[f])
           /\ SummaryRollsUp(call.ret)

\* two files with queries under a common level, on an engine that has scored
\* queries before
C22_Witness ==
    /\ IsReturned("analyze_json_files")
    /\ call.counts_before # <<>>
    /\ \E f, g \in DOMAIN call.ret.files :
           /\ f < g
           /\ \E label \in DOMAIN call.ret.files[f].complexity_distribution :
                  /\ label \in DOMAIN call.ret.files[g].complexity_distribution
                  /\ call.ret.summary.complexity_distribution[label] >= 3

(***************************************************************************)
(* C23: the boolean operators inside a subquery of the WHERE clause        *)
(***************************************************************************)
\* where_clause of the where-condition scan; <<>> when the text has no WHERE
WhereClauseOf(sql) ==
    LET where_start == Find(Upper(sql), <<"W","H","E","R","E">>, 0)
    IN  IF where_start = -1 THEN <<>>
        ELSE Slice(sql, where_start + 5, WhereEnd(Upper(sql), where_start, Len(sql), 1))

\* the number of `AND ` and `OR ` of where_clause that lie outside every
\* subquery: `open` holds, for every parenthesis that is open, whether it opens
\* a SELECT, and a `)` closes the parenthesis opened last
OperatorsOutsideSubqueries(where_clause) ==
    LET where_upper == Upper(where_clause)
        Turn(i, st) ==
            IF At(where_clause, i) = "("
            THEN [open |-> Append(st.open,
                                  HasAt(where_upper, SkipBlanks(where_clause, i + 1),
                                        <<"S","E","L","E","C","T">>)),
                  count |-> st.count]
            ELSE IF At(where_clause, i) = ")"
            THEN [open |-> IF st.open = <<>> THEN <<>>
                           ELSE SubSeq(st.open, 1, Len(st.open) - 1),
                  count |-> st.count]
            ELSE IF \A k \in DOMAIN st.open : ~st.open[k]
            THEN [open |-> st.open,
                  count |-> IF HasAt(where_upper, i, <<"A","N","D"," ">>)
                               \/ HasAt(where_upper, i, <<"O","R"," ">>)
                            THEN st.count + 1 ELSE st.count]
            ELSE st
    IN  Loop(Turn, 0, Len(where_clause), [open |-> <<>>, count |-> 0]).count

\* C23: the where-condition scan counts the `AND ` and `OR ` outside every
\* subquery only: none between the `(` that opens a SELECT and the `)` that
\* matches it is counted, also when the subquery holds further parentheses.
C23_SubqueryOperatorsNotCounted ==
    IsReturned("where_condition_count") /\ Strip(WhereClauseOf(call.arg)) # <<>> =>
        call.ret = OperatorsOutsideSubqueries(WhereClauseOf(call.arg)) + 1

\* the scans that count an operator of a subquery
C23_CountedInSubquery ==
    /\ IsReturned("where_condition_count")
    /\ Strip(WhereClauseOf(call.arg)) # <<>>
    /\ call.ret > OperatorsOutsideSubqueries(WhereClauseOf(call.arg)) + 1

(***************************************************************************)
(* SpecFrom: the select column count of texts with FROM inside and outside *)
(* parentheses, inside names, and with no FROM                             *)
(***************************************************************************)
FromPieces ==
    << <<"S","E","L","E","C","T"," ">>, <<"a">>, <<",">>, <<"(">>, <<")">>, <<" ","F","R","O","M"," ","t">>, <<"F","R","O","M">>, <<"f","r","o","m","_","x">>, <<" ">> >>

\* the most pieces a text is put together from
MaxFromPieces == 4

WrittenFromTexts ==
    { <<"S","E","L","E","C","T"," ","(","S","E","L","E","C","T"," ","m","a","x","(","x",")"," ","F","R","O","M"," ","u",")",","," ","a"," ","F","R","O","M"," ","t">>,
      <<"S","E","L","E","C","T"," ","a",","," ","(","S","E","L","E","C","T"," ","b"," ","F","R","O","M"," ","u"," ","W","H","E","R","E"," ","u",".","x"," ","I","N"," ","(","S","E","L","E","C","T"," ","y"," ","F","R","O","M"," ","v",")",")"," ","F","R","O","M"," ","t">>,
      <<"S","E","L","E","C","T"," ","a",","," ","f","(","b"," ","F","R","O","M"," ","t">>,
      <<"S","E","L","E","C","T"," ","a",")",","," ","b"," ","F","R","O","M"," ","t">>,
      <<"S","E","L","E","C","T"," ","a",","," ","b">>,
      <<"S","E","L","E","C","T"," ","a",","," ","(","S","E","L","E","C","T"," ","b"," ","F","R","O","M"," ","u",")">>,
      <<"S","E","L","E","C","T"," ","f","r","o","m","a","g","e",","," ","a"," ","F","R","O","M"," ","t">>,
      <<"S","E","L","E","C","T"," ","a","f","r","o","m",","," ","b"," ","F","R","O","M","2"," ","F","R","O","M"," ","t">>,
      <<"s","e","l","e","c","t"," ","a",",","b"," ","f","r","o","m"," ","t"," ","w","h","e","r","e"," ","c"," ","i","n"," ","(","s","e","l","e","c","t"," ","d"," ","f","r","o","m"," ","u",")">>,
      <<"S","E","L","E","C","T"," ","a",",","b"," ","F","R","O","M">>,
      <<"W","I","T","H"," ","q"," ","A","S"," ","(","S","E","L","E","C","T"," ","a",","," ","b"," ","F","R","O","M"," ","t",")"," ","S","E","L","E","C","T"," ","c"," ","F","R","O","M"," ","q">> }

\* the texts handed to the scan are preprocessed texts
FromInputs(max_pieces) ==
    { sql \in PiecedTexts(FromPieces, 0, max_pieces) \cup WrittenFromTexts :
          _preprocess_sql(sql) = sql }

InitFrom ==
    /\ EngineIdle
    /\ \E sql \in FromInputs(MaxFromPieces) :
           call = [fn |-> "select_column_count", arg |-> sql, done |-> FALSE, ret |-> 0]

NextFrom == CalculateSelectColumnCount

SpecFrom == InitFrom /\ [][NextFrom]_vars

\* the number of '(' less the number of ')' of sql between the positions lo
\* and hi - 1
ParenDepthBetween(sql, lo, hi) ==
    Cardinality({ k \in lo..(hi - 1) : At(sql, k) = "(" })
    - Cardinality({ k \in lo..(hi - 1) : At(sql, k) = ")" })

\* the positions of sql past the first SELECT that hold a FROM between
\* characters that are no letters and no digits, at parenthesis depth 0
TopLevelFroms(sql) ==
    LET start_pos == Find(Upper(sql), <<"S","E","L","E","C","T">>, 0) + 6
    IN  { k \in start_pos..(Len(sql) - 4) :
              /\ HasAt(Upper(sql), k, <<"F","R","O","M">>)
              /\ (k = 0 \/ ~IsAlnum(At(sql, k - 1)))
              /\ (k + 4 >= Len(sql) \/ ~IsAlnum(At(sql, k + 4)))
              /\ ParenDepthBetween(sql, start_pos, k) = 0 }

\* the least element of a set of numbers that is not empty
Least(S) == CHOOSE k \in S : \A j \in S : k <= j

C24_WitnessUnbalanced ==
    /\ IsReturned("select_column_count")
    /\ call.arg = <<"S","E","L","E","C","T"," ","a",","," ","f","(","b"," ","F","R","O","M"," ","t">>
    /\ call.ret = 0

(***************************************************************************)
(* SpecTables: the table count of queries that name tables in a FROM list, *)
(* in a JOIN and inside a LATERAL subquery, beside derived tables          *)
(***************************************************************************)
\* spellings of table names, each with the table it names; a spelling whose
\* last segment is a keyword names no table
TableSpellings ==
    { [text |-> <<"t">>, table |-> "T"],
      [text |-> <<"S",".","T">>, table |-> "T"],
      [text |-> <<"d","b",".","s",".","t">>, table |-> "T"],
      [text |-> <<"u">>, table |-> "U"],
      [text |-> <<"s",".","U">>, table |-> "U"],
      [text |-> <<"L","e","f","t">>, table |-> ""],
      [text |-> <<"x",".","s","e","l","e","c","t">>, table |-> ""] }

\* no table at this place of the query
NoTable == [text |-> <<>>, table |-> ""]

\* SELECT * FROM first[, second][ JOIN joined ON 1=1][ JOIN LATERAL (SELECT *
\* FROM inner) l ON 1=1] and, with derived, two derived tables
TablesSql(first, second, joined, inner, derived) ==
    <<"S","E","L","E","C","T"," ","*"," ","F","R","O","M"," ">> \o first.text
    \o (IF second = NoTable THEN <<>> ELSE <<","," ">> \o second.text)
    \o (IF joined = NoTable THEN <<>> ELSE <<" ","J","O","I","N"," ">> \o joined.text \o <<" ","O","N"," ","1","=","1">>)
    \o (IF inner = NoTable THEN <<>>
        ELSE <<" ","J","O","I","N"," ","L","A","T","E","R","A","L"," ","(","S","E","L","E","C","T"," ","*"," ","F","R","O","M"," ">> \o inner.text \o <<")"," ","l"," ","O","N"," ","1","=","1">>)
    \o (IF derived THEN <<" ","J","O","I","N"," ","(","S","E","L","E","C","T"," ","1",")"," ","d"," ","O","N"," ","1","=","1"," ","W","H","E","R","E"," ","x"," ","I","N"," ","(","S","E","L","E","C","T"," ","y"," ","F","R","O","M"," ","(","S","E","L","E","C","T"," ","2",")"," ","e",")">>
        ELSE <<>>)

InitTables ==
    /\ EngineIdle
    /\ \E first \in TableSpellings, second, joined, inner \in TableSpellings \cup {NoTable},
          derived \in BOOLEAN :
           call = [fn |-> "table_count",
                   arg |-> TablesSql(first, second, joined, inner, derived),
                   named |-> {first, second, joined, inner}, derived |-> derived,
                   done |-> FALSE, ret |-> 0]

CalculateTableCount ==
    /\ IsPending("table_count")
    /\ call' = [call EXCEPT !.done = TRUE, !.ret = TableCount(call.arg)]
    /\ UNCHANGED engine_vars

NextTables == CalculateTableCount

SpecTables == InitTables /\ [][NextTables]_vars

\* C25: table_count is the number of distinct tables named in the FROM list,
\* in the JOIN and inside the LATERAL subquery, the names compared without
\* schema qualifier and in upper case: a table named with another case, with a
\* schema prefix or in several clauses counts once, the derived tables of
\* `FROM (` and `JOIN (` and the word LATERAL of JOIN LATERAL add nothing, and
\* a name whose last segment is one of the keywords is not counted.
C25_TableCount ==
    IsReturned("table_count") =>
        /\ call.ret = Cardinality({ n.table : n \in call.named } \ {""})
        /\ TableNames(FromPassNames(call.arg)) \cup TableNames(JoinPassNames(call.arg))
               \cup TableNames(LateralPassNames(call.arg)) \subseteq {<<"T">>, <<"U">>}

\* one table spelled in three ways in the three clauses, beside derived tables
C25_Witness ==
    /\ IsReturned("table_count")
    /\ call.arg = TablesSql([text |-> <<"d","b",".","s",".","t">>, table |-> "T"], [text |-> <<"x",".","s","e","l","e","c","t">>, table |-> ""],
                            [text |-> <<"S",".","T">>, table |-> "T"], [text |-> <<"t">>, table |-> "T"], TRUE)
    /\ call.ret = 1

(***************************************************************************)
(* C26: the structural corpus average of the normalized scores.            *)
(* SpecPartition: a structural engine without rules analyses a list of     *)
(* queries spread over two files in every way                              *)
(***************************************************************************)
\* a structural rule file without rules: the scores come from the metrics
StRulesNone == [common_rules |-> Dict(<<>>), dbms_specific_rules |-> Dict(<<>>)]

\* the most queries of the first file; the second file holds fewer
MaxFileQueries == 4

\* a query of normalized score 0 and one of normalized score 0.25 (six tables)
PartitionQueries ==
    << [name |-> "one", sql |-> <<"S","E","L","E","C","T"," ","1">>],
       [name |-> "six", sql |-> <<"S","E","L","E","C","T"," ","a"," ","F","R","O","M"," ","t",","," ","u",","," ","v",","," ","w",","," ","x",","," ","y">>] >>

\* the lists of lo to hi of the queries
QueryLists(queries, lo, hi) ==
    UNION { { [k \in 1..n |-> queries[pick[k]]] : pick \in [1..n -> DOMAIN queries] } :
                n \in lo..hi }

\* one document of two files, of up to max_queries and of fewer of the queries
PartitionCorpora(queries, max_queries) ==
    { << [files |-> << [file_name |-> "first.xml", queries |-> first],
                       [file_name |-> "second.xml", queries |-> second] >>] >> :
          first \in QueryLists(queries, 1, max_queries),
          second \in QueryLists(queries, 0, max_queries - 1) }

InitPartition ==
    /\ StInit(StRulesNone, <<"o","r","a","c","l","e">>)
    /\ \E json_docs \in PartitionCorpora(PartitionQueries, MaxFileQueries) :
           call = Pending("analyze_json_files", json_docs)

\* engine.analyze_json_files(json_paths), the files holding call.arg
StAnalyzePartition ==
    /\ variant = "structural"
    /\ IsPending("analyze_json_files")
    /\ \E r \in {St_analyze_json_files(common_rules, dbms_rules, source_db, rule_match_counts,
                                       call.arg)} :
           /\ rule_match_counts' = r.rule_match_counts
           /\ \E result \in r.results :
                  call' = Analyzed("analyze_json_files", call.arg, rule_match_counts, result)
    /\ last_score' = <<>>
    /\ UNCHANGED <<variant, source_db, compiled_patterns, common_rules, dbms_rules>>

NextPartition == StAnalyzePartition

SpecPartition == InitPartition /\ [][NextPartition]_vars

\* no average of a file of files lies half-way between two hundredths, where
\* the rounding of the float may go either way
NoTiedFileAverage(files) ==
    \A f \in DOMAIN files :
        files[f].query_count > 0 =>
            Cardinality(RoundDiv(TotalNormalized(files[f].queries), files[f].query_count)) = 1

\* the sum over the files of avg_normalized_score * query_count, in hundredths
RoundedFileTotal(files) ==
    LET Turn(k, acc) == acc + files[k + 1].avg_normalized_score * files[k + 1].query_count
    IN  Loop(Turn, 0, Len(files), 0)

\* the quotient that the summary rounds is no tie either
NoTiedCorpusAverage(result) ==
    Cardinality(RoundDiv(RoundedFileTotal(result.files), result.summary.total_queries)) = 1

\* C26: in the structural variant the summary's average_normalized_score is
\* the mean of the normalized_score of all scored queries of all files, rounded
\* to 2 decimals, however the queries are spread over the files (checked where
\* no average that the engine rounds is a rounding tie).
C26_MeanOfAllQueries ==
    /\ IsReturned("analyze_json_files")
    /\ variant = "structural"
    /\ call.ret.summary.total_queries > 0
    /\ NoTiedFileAverage(call.ret.files)
    /\ NoTiedCorpusAverage(call.ret)
    => call.ret.summary.average_normalized_score
           \in RoundDiv(TotalNormalized(QueryScoresOf(call.ret.files)),
                        call.ret.summary.total_queries)

(***************************************************************************)
(* C27: the subquery depth of balanced texts                               *)
(***************************************************************************)
\* every ')' of sql closes a '(' and every '(' is closed
BalancedParens(sql) ==
    LET Turn(k, open) ==
            IF open < 0 THEN open
            ELSE IF At(sql, k) = "(" THEN open + 1
            ELSE IF At(sql, k) = ")" THEN open - 1
            ELSE open
    IN  Loop(Turn, 0, Len(sql), 0) = 0

\* the number of TRUE entries of a sequence of booleans
CountTrue(flags) == Cardinality({ k \in DOMAIN flags : flags[k] })

\* the most '(SELECT' groups of a balanced text that are open at the same
\* time: each ')' closes the '(' opened last, whether that opened a SELECT
\* or not
MaxOpenSelectGroups(sql) ==
    LET sql_upper == Upper(sql)
        Turn(k, st) ==
            IF At(sql, k) = "("
            THEN Let(Append(st.open, HasAt(sql_upper, k, <<"(","S","E","L","E","C","T">>)), LAMBDA open :
                     [open |-> open, most |-> Max(st.most, CountTrue(open))])
            ELSE IF At(sql, k) = ")" /\ Len(st.open) > 0
            THEN [st EXCEPT !.open = SubSeq(st.open, 1, Len(st.open) - 1)]
            ELSE st
    IN  Loop(Turn, 0, Len(sql), [open |-> <<>>, most |-> 0]).most

\* C27: for a text with balanced parentheses subquery_depth is min(5, the most
\* '(SELECT' groups open at the same time); a pair of parentheses that does not
\* open a SELECT leaves the measured depth as it was.
C27_DepthOfBalanced ==
    /\ IsReturned("subquery_depth")
    /\ BalancedParens(call.arg)
    => call.ret = Min(MAX_SUBQUERY_DEPTH, MaxOpenSelectGroups(call.arg))

(***************************************************************************)
(* C28: the category scores of a structural QueryScore                     *)
(***************************************************************************)
\* the sum of the values of the dict category_scores
RECURSIVE SumOfValues(_)
SumOfValues(category_scores) ==
    IF DOMAIN category_scores = {} THEN 0
    ELSE LET c == CHOOSE key \in DOMAIN category_scores : TRUE
         IN  category_scores[c]
             + SumOfValues([key \in DOMAIN category_scores \ {c} |-> category_scores[key]])

\* C28: in the structural variant the keys of every QueryScore's category_scores
\* are among structural, clause, function_expression, query_metric and
\* dbms_specific, and the values add up to raw_score.
C28_CategoryScoresComplete ==
    /\ variant = "structural"
    /\ last_score # <<>>
    => /\ DOMAIN last_score[1].category_scores
              \subseteq {"structural", "clause", "function_expression", "query_metric",
                         "dbms_specific"}
       /\ SumOfValues(last_score[1].category_scores) = last_score[1].raw_score

\* a query matched by a common rule under a category name that is not mapped,
\* by a dialect rule and by several metric rules has been scored
C28_Witness ==
    /\ variant = "structural"
    /\ last_score # <<>>
    /\ \E m \in DOMAIN last_score[1].matched_rules :
           /\ last_score[1].matched_rules[m].subcategory = "my_checks"
           /\ last_score[1].matched_rules[m].category = "structural"
    /\ {"structural", "clause", "query_metric", "dbms_specific"}
           \subseteq DOMAIN last_score[1].category_scores
    /\ Cardinality({ m \in DOMAIN last_score[1].matched_rules :
                         last_score[1].matched_rules[m].category = "query_metric" }) > 1
    /\ last_score[1].raw_score > 0

(***************************************************************************)
(* SpecBand: a structural engine analyses queries whose normalized scores  *)
(* lie at and just below the band edge 2, spread over two files            *)
(***************************************************************************)
\* keyword rules that score 0.03 point (structural) and 0.025 point
\* (dbms_specific) for each point of weight
StRulesBand ==
    [common_rules |-> Dict(<<
        <<"structural_join", List(<<
            [id |-> "k1", pattern |-> <<"a","l","p","h","a">>, weight |-> 58, detection_method |-> "keyword"],
            [id |-> "k2", pattern |-> <<"b","e","t","a">>, weight |-> 2, detection_method |-> "keyword"] >>)>> >>),
     dbms_specific_rules |-> Dict(<<
        <<<<"O","R","A">>, List(<<
            [id |-> "d1", pattern |-> <<"g","a","m","m","a">>, weight |-> 8, detection_method |-> "keyword"],
            [id |-> "d2", pattern |-> <<"d","e","l","t","a">>, weight |-> 2, detection_method |-> "keyword"] >>)>> >>)]

\* queries of normalized score 0, 2.00 (60 structural and 8 dialect points)
\* and 1.99 (58 structural and 10 dialect points)
BandQueries ==
    << [name |-> "zero", sql |-> <<"S","E","L","E","C","T"," ","1">>],
       [name |-> "edge", sql |-> <<"S","E","L","E","C","T"," ","a","l","p","h","a",","," ","b","e","t","a",","," ","g","a","m","m","a">>],
       [name |-> "below", sql |-> <<"S","E","L","E","C","T"," ","a","l","p","h","a",","," ","g","a","m","m","a",","," ","d","e","l","t","a">>] >>

\* the most queries of the first file; the second file holds fewer
MaxBandQueries == 3

InitBand ==
    /\ StInit(StRulesBand, <<"o","r","a","c","l","e">>)
    /\ \E json_docs \in PartitionCorpora(BandQueries, MaxBandQueries) :
           call = Pending("analyze_json_files", json_docs)

SpecBand == InitBand /\ [][NextPartition]_vars

(***************************************************************************)
(* C29: the levels and the scores stored next to them                      *)
(***************************************************************************)
\* the level of the score stored in a QueryScore, in hundredths
LevelOfStored(query_score) ==
    IF variant = "conversion"
    THEN Conv_get_complexity_level(query_score.weighted_score, 100)
    ELSE St_get_complexity_level(query_score.normalized_score, 100)

\* the level of the average stored in a summary, in hundredths
LevelOfStoredAverage(summary) ==
    IF variant = "conversion"
    THEN Conv_get_complexity_level(summary.average_score, 100)
    ELSE St_get_complexity_level(summary.average_normalized_score, 100)

\* no normalized score of a structural QueryScore lies half-way between two
\* hundredths
NoTiedQueryScore(query_scores) ==
    variant = "structural" =>
        \A q \in DOMAIN query_scores :
            _calculate_normalized_score(query_scores[q].category_scores) % 2 = 0

\* C29: in every QueryScore complexity_level is the band of the stored, rounded
\* score, and in every summary overall_complexity_level is the band of the
\* stored, rounded average (checked where no score that the engine rounds is a
\* rounding tie).
C29_LevelIsBandOfStoredScore ==
    /\ IsReturned("analyze_json_files")
    /\ call.ret.summary.total_queries > 0
    /\ NoTiedQueryScore(QueryScoresOf(call.ret.files))
    /\ variant = "structural" => /\ NoTiedFileAverage(call.ret.files)
                                 /\ NoTiedCorpusAverage(call.ret)
    => /\ \A q \in DOMAIN QueryScoresOf(call.ret.files) :
              QueryScoresOf(call.ret.files)[q].complexity_level
                  = LevelOfStored(QueryScoresOf(call.ret.files)[q])
       /\ call.ret.summary.overall_complexity_level = LevelOfStoredAverage(call.ret.summary)

(***************************************************************************)
(* C30: the rule statistics of one analyze_json_files call                 *)
(***************************************************************************)
\* the entries of a rule_statistics list, whatever their order
EntriesOf(rule_statistics) == { rule_statistics[k] : k \in DOMAIN rule_statistics }

\* C30: the rule_statistics that an analyze_json_files call returns count the
\* matches of the queries scored during that call only: they are the ones the
\* engine returns for the same corpus when nothing was scored on it before.
C30_StatisticsOfThisCall ==
    IsReturned("analyze_json_files") =>
        EntriesOf(call.ret.rule_statistics)
            \in { EntriesOf(r.rule_statistics) :
                      r \in AnalyzeJsonFilesFrom(<<>>, call.arg).results }

====
